---- MODULE Spec2Model ----
(***************************************************************************)
(* rotate_backup: the backup-level decision engine (classifier, execution  *)
(* ledger, scheduling decision, one-shot and daemon drivers) and the       *)
(* promotion / rotation cycle of runBackup, modelled from src/main.go and  *)
(* its earlier duplicate src/unnamed/part_001.                             *)
(***************************************************************************)
EXTENDS Integers, Sequences, FiniteSets, TLC

VARIABLES
    clock,       \* the wall clock read by time.Now()
    cfg,         \* the loaded BackupConfig (fields used by the core)
    ledgerFile,  \* content of cfg.LastExecutionFile on disk
    pc,          \* per process: position inside runOneShotMode
    now,         \* per process: the local `now` of runOneShotMode
    lvl,         \* per process: the local `level` of runOneShotMode
    rec,         \* per process: the record loaded by recordLastExecution
    ret,         \* per process: what the last invocation returned
    execs,       \* history: executions so far, as a bag of <<level, minute>>
    lost,        \* history: the <<level, minute>> whose recording returned an error
    runs,        \* history: number of driver invocations / loop iterations
    call,        \* the last call made directly on the core API, with its result
    impl,        \* which of the two implementations of promoteBackup runs
    dirs,        \* the tier directories of cfg.BackupDirs
    lastID,      \* the number held by cfg.LastIDFile (0: no file yet)
    lockFile,    \* whether the file cfg.LockFilePath exists
    bpc,         \* per process: position inside runBackup
    bi,          \* per process: the loop index of promoteBackup / of the rotation loop
    fname,       \* per process: the local `filename` of runBackup
    held,        \* per process: lockFile != nil, released by the deferred call
    bret,        \* per process: what the last runBackup returned
    cyc,         \* history, per process: what the current cycle has done so far
    ev,          \* history: the last file operation step and what it did
    faulted,     \* history: some file operation has failed
    cycles       \* history: number of runBackup invocations

bakVars == <<impl, dirs, lastID, lockFile, bpc, bi, fname, held, bret, cyc, ev, faulted, cycles>>

schedVars == <<clock, cfg, ledgerFile, pc, now, lvl, rec, ret, execs, lost, runs, call>>

-----------------------------------------------------------------------------
(* Bounds of the model.                                                    *)

MaxDay == 2
MaxRuns == 3
MaxCalls == 2
MaxIter == 4
MaxCycles == 3
MaxKeep == 2
MaxPre == 3

\* cycles of the specifications that take a whole cycle as one step
MaxTwin == 8

\* entries of copy_method_priority
MaxPriority == 2

\* characters of a file path
MaxPath == 4

\* entries below the destination directory that the cleanup walk visits
MaxEntries == 2

-----------------------------------------------------------------------------
(* Time.  A time.Time is modelled as a wall-clock reading (day, hour,      *)
(* minute, second) plus the flag `mono`: a value read from time.Now()      *)
(* carries a monotonic clock reading, a value decoded from JSON does not.  *)

Procs == {"p1", "p2"}

Levels == {"30m", "3h", "6h", "12h", "1d"}

NoLevel == ""

Time(d, h, m, s, mono) == [day |-> d, hour |-> h, min |-> m, sec |-> s, mono |-> mono]

\* time.Time{}: the zero value, January 1 year 1 (before every modelled day)
ZeroTime == Time(0, 0, 0, 0, FALSE)

IsZero(t) == t.day = 0 /\ t.hour = 0 /\ t.min = 0 /\ t.sec = 0

\* seconds since the zero time
Abs(t) == ((t.day * 24 + t.hour) * 60 + t.min) * 60 + t.sec

FromAbs(n, mono) ==
    Time(n \div 86400, (n \div 3600) % 24, (n \div 60) % 60, n % 60, mono)

\* a Truncate that keeps the seconds
TruncateNone(t) == [t EXCEPT !.mono = FALSE]

\* t.Truncate(time.Minute): rounds down to a multiple of a minute since the
\* zero time and strips the monotonic reading
Truncate(t) == FromAbs(Abs(t) - (Abs(t) % 60), FALSE)

\* t.Equal(u): same instant, the monotonic reading is not compared
Equal(t, u) == Abs(t) = Abs(u)

\* t.Add(n seconds)
AddSeconds(t, n) == FromAbs(Abs(t) + n, t.mono)

\* the key under which the history files an execution: level and minute
MinuteOf(t) == <<t.day, t.hour, t.min>>

-----------------------------------------------------------------------------
(* Level Classifier.                                                       *)

Verdict(ok, level) == [ok |-> ok, level |-> level]

\* the classifier with the 12h rule tested before the 1d rule
determineBestBackupLevelSwapped(t) ==
    IF (t.hour = 0 \/ t.hour = 12) /\ t.min = 0 THEN Verdict(TRUE, "12h")
    ELSE IF t.hour = 0 /\ t.min = 0 THEN Verdict(TRUE, "1d")
    ELSE IF t.hour % 6 = 0 /\ t.min = 0 THEN Verdict(TRUE, "6h")
    ELSE IF t.hour % 3 = 0 /\ t.min = 0 THEN Verdict(TRUE, "3h")
    ELSE IF t.min = 0 \/ t.min = 30 THEN Verdict(TRUE, "30m")
    ELSE Verdict(FALSE, NoLevel)

determineBestBackupLevel(t) ==
    IF t.hour = 0 /\ t.min = 0 THEN Verdict(TRUE, "1d")
    ELSE IF (t.hour = 0 \/ t.hour = 12) /\ t.min = 0 THEN Verdict(TRUE, "12h")
    ELSE IF t.hour % 6 = 0 /\ t.min = 0 THEN Verdict(TRUE, "6h")
    ELSE IF t.hour % 3 = 0 /\ t.min = 0 THEN Verdict(TRUE, "3h")
    ELSE IF t.min = 0 \/ t.min = 30 THEN Verdict(TRUE, "30m")
    ELSE Verdict(FALSE, NoLevel)

-----------------------------------------------------------------------------
(* Execution Ledger.  The file holds the JSON encoding of a                *)
(* LastExecutionRecord: level name -> RFC 3339 timestamp.                  *)

EmptyMap == [l \in {} |-> ZeroTime]

Put(m, k, v) == [x \in (DOMAIN m) \cup {k} |-> IF x = k THEN v ELSE m[x]]

\* an encoding with the precision of a minute
EncodeTimeMinute(t) == <<t.day, t.hour, t.min, 0>>

\* time.Time.MarshalJSON: the wall-clock reading, no monotonic reading
EncodeTime(t) == <<t.day, t.hour, t.min, t.sec>>

\* time.Time.UnmarshalJSON
DecodeTime(e) == Time(e[1], e[2], e[3], e[4], FALSE)

MissingFile == [state |-> "missing", data |-> EmptyMap]

CorruptFile == [state |-> "corrupt", data |-> EmptyMap]

JsonFile(data) == [state |-> "ok", data |-> data]

\* a load that takes an unparsable file for an empty record
loadLastExecutionRecordLenient(file) ==
    IF file.state = "missing"
    THEN [err |-> "notexist", isNil |-> TRUE, LastExecutions |-> EmptyMap]
    ELSE IF file.state = "corrupt"
    THEN [err |-> "nil", isNil |-> FALSE, LastExecutions |-> EmptyMap]
    ELSE [err |-> "nil", isNil |-> FALSE,
          LastExecutions |-> [l \in DOMAIN file.data |-> DecodeTime(file.data[l])]]

\* err: "nil", "notexist" (os.IsNotExist) or "other"; isNil: the returned
\* *LastExecutionRecord is nil
loadLastExecutionRecord(file) ==
    IF file.state = "missing"
    THEN [err |-> "notexist", isNil |-> TRUE, LastExecutions |-> EmptyMap]
    ELSE IF file.state = "corrupt"
    THEN [err |-> "other", isNil |-> TRUE, LastExecutions |-> EmptyMap]
    ELSE [err |-> "nil", isNil |-> FALSE,
          LastExecutions |-> [l \in DOMAIN file.data |-> DecodeTime(file.data[l])]]

\* what can go wrong while saving: nothing, os.MkdirAll fails, os.WriteFile
\* fails before it truncates the file, os.WriteFile fails after truncating it
SaveFaults == {"none", "mkdir", "open", "partial"}

\* a save that reports success without writing the file
saveLastExecutionRecordNoWrite(file, record, fault) ==
    IF fault = "none" THEN [err |-> "nil", file |-> file]
    ELSE [err |-> "other", file |-> file]

\* returns the error and the file content afterwards
saveLastExecutionRecord(file, record, fault) ==
    IF fault = "mkdir" \/ fault = "open" THEN [err |-> "other", file |-> file]
    ELSE IF fault = "partial" THEN [err |-> "other", file |-> CorruptFile]
    ELSE [err |-> "nil",
          file |-> JsonFile([l \in DOMAIN record |-> EncodeTime(record[l])])]

\* a read-modify part that starts from an empty record every time
recordLoadFresh(file, level, executionTime) ==
    LET r == loadLastExecutionRecord(file)
    IN  IF r.err # "nil" /\ r.err # "notexist"
        THEN [err |-> r.err, record |-> EmptyMap]
        ELSE [err |-> "nil", record |-> Put(EmptyMap, level, executionTime)]

\* a read-modify part that puts the zero time in for the level
recordLoadZero(file, level, executionTime) ==
    LET r == loadLastExecutionRecord(file)
        base == IF r.isNil THEN EmptyMap ELSE r.LastExecutions
    IN  IF r.err # "nil" /\ r.err # "notexist"
        THEN [err |-> r.err, record |-> EmptyMap]
        ELSE [err |-> "nil", record |-> Put(base, level, ZeroTime)]

\* a read-modify part that leaves the new entry out
recordLoadWithoutEntry(file, level, executionTime) ==
    LET r == loadLastExecutionRecord(file)
        base == IF r.isNil THEN EmptyMap ELSE r.LastExecutions
    IN  IF r.err # "nil" /\ r.err # "notexist"
        THEN [err |-> r.err, record |-> EmptyMap]
        ELSE [err |-> "nil", record |-> base]

\* the read-modify part of recordLastExecution: the error it returns early
\* with, and the record it goes on to save
recordLoad(file, level, executionTime) ==
    LET r == loadLastExecutionRecord(file)
        base == IF r.isNil THEN EmptyMap ELSE r.LastExecutions
    IN  IF r.err # "nil" /\ r.err # "notexist"
        THEN [err |-> r.err, record |-> EmptyMap]
        ELSE [err |-> "nil", record |-> Put(base, level, executionTime)]

\* a recordLastExecution without the test of an empty cfg.LastExecutionFile
recordLastExecutionUnchecked(c, file, level, executionTime, fault) ==
    LET l == recordLoad(file, level, executionTime)
    IN  IF l.err # "nil" THEN [err |-> l.err, file |-> file]
        ELSE saveLastExecutionRecord(file, l.record, fault)

\* recordLastExecution as one atomic call: the error and the file afterwards
recordLastExecution(c, file, level, executionTime, fault) ==
    IF c.LastExecutionFile = "" THEN [err |-> "nil", file |-> file]
    ELSE LET l == recordLoad(file, level, executionTime)
         IN  IF l.err # "nil" THEN [err |-> l.err, file |-> file]
             ELSE saveLastExecutionRecord(file, l.record, fault)

-----------------------------------------------------------------------------
(* Scheduling Decision.                                                    *)

Decision(execute, level, err) == [execute |-> execute, level |-> level, err |-> err]

\* a decision that loads the ledger before it asks the classifier
shouldExecuteBackupLoadFirst(c, currentTime, file) ==
    LET v == determineBestBackupLevel(currentTime)
        level == v.level
        lastRecord == loadLastExecutionRecord(file)
    IN  IF c.LastExecutionFile # "" /\ lastRecord.err # "nil" /\ lastRecord.err # "notexist"
        THEN Decision(FALSE, NoLevel, "other")
        ELSE IF ~v.ok THEN Decision(FALSE, NoLevel, "nil")
        ELSE IF c.LastExecutionFile = "" \/ lastRecord.err = "notexist" \/ lastRecord.isNil
        THEN Decision(TRUE, level, "nil")
        ELSE IF level \notin DOMAIN lastRecord.LastExecutions
        THEN Decision(TRUE, level, "nil")
        ELSE IF IsZero(lastRecord.LastExecutions[level])
        THEN Decision(TRUE, level, "nil")
        ELSE IF Equal(Truncate(currentTime), Truncate(lastRecord.LastExecutions[level]))
        THEN Decision(FALSE, NoLevel, "nil")
        ELSE Decision(TRUE, level, "nil")

\* whether shouldExecuteBackup reaches its call of loadLastExecutionRecord
shouldExecuteBackupReads(c, currentTime) ==
    determineBestBackupLevel(currentTime).ok /\ c.LastExecutionFile # ""

shouldExecuteBackup(c, currentTime, file) ==
    LET v == determineBestBackupLevel(currentTime)
        level == v.level
    IN  IF ~v.ok THEN Decision(FALSE, NoLevel, "nil")
        ELSE IF c.LastExecutionFile = "" THEN Decision(TRUE, level, "nil")
        ELSE LET lastRecord == loadLastExecutionRecord(file)
             IN  IF lastRecord.err # "nil" /\ lastRecord.err # "notexist"
                 THEN Decision(FALSE, NoLevel, "other")
                 ELSE IF lastRecord.err = "notexist" THEN Decision(TRUE, level, "nil")
                 ELSE IF lastRecord.isNil THEN Decision(TRUE, level, "nil")
                 ELSE IF level \notin DOMAIN lastRecord.LastExecutions
                 THEN Decision(TRUE, level, "nil")
                 ELSE IF IsZero(lastRecord.LastExecutions[level])
                 THEN Decision(TRUE, level, "nil")
                 ELSE IF Equal(Truncate(currentTime),
                               Truncate(lastRecord.LastExecutions[level]))
                 THEN Decision(FALSE, NoLevel, "nil")
                 ELSE Decision(TRUE, level, "nil")

\* a decision that records the execution it allows
shouldExecuteBackupRecording(c, currentTime, file) ==
    LET d == shouldExecuteBackup(c, currentTime, file)
    IN  IF d.execute
        THEN recordLastExecution(c, file, d.level, currentTime, "none").file
        ELSE file

\* the ledger file after shouldExecuteBackup: the function reads it
\* (os.ReadFile in loadLastExecutionRecord) and writes nothing
shouldExecuteBackupFile(c, currentTime, file) == file

\* runBackupWithLevel: the simplified body logs and returns nil
runBackupWithLevel(c, level) == "nil"

\* the tier directories after runBackupWithLevel: its body performs no file
\* operation
runBackupWithLevelDirs(c, level, d) == d

OneShotReturn(err, file, ran, level) ==
    [err |-> err, file |-> file, ran |-> ran, level |-> level]

\* runOneShotMode as one call that nothing interleaves with: what it returns,
\* the ledger file afterwards, whether the backup step ran (or was simulated)
\* and for which level
runOneShotMode(c, t, file0, fault) ==
    LET d == shouldExecuteBackup(c, t, file0)
        file == shouldExecuteBackupFile(c, t, file0)
    IN  IF d.err # "nil" THEN OneShotReturn(d.err, file, FALSE, NoLevel)
        ELSE IF ~d.execute THEN OneShotReturn("nil", file, FALSE, NoLevel)
        ELSE IF c.DryRun
        THEN OneShotReturn("nil", recordLastExecution(c, file, d.level, t, fault).file,
                           TRUE, d.level)
        ELSE IF runBackupWithLevel(c, d.level) # "nil"
        THEN OneShotReturn(runBackupWithLevel(c, d.level), file, TRUE, d.level)
        ELSE LET r == recordLastExecution(c, file, d.level, t, fault)
             IN  OneShotReturn(r.err, r.file, TRUE, d.level)

-----------------------------------------------------------------------------
(* Artifact names.  A file name is a sequence of characters; the model     *)
(* keeps the decimal digits of the sequence number, the underscore that    *)
(* follows it (the timestamp after it never decides an order between two   *)
(* different sequence numbers) and the suffix as one last character.       *)

PadWidth == 6

Underscore == 10

VhdxSuffix == 11

OtherSuffix == 12

RECURSIVE Digits(_)
Digits(n) == IF n < 10 THEN <<n>> ELSE Digits(n \div 10) \o <<n % 10>>

RECURSIVE PadLeft(_, _)
PadLeft(ds, w) == IF Len(ds) >= w THEN ds ELSE PadLeft(<<0>> \o ds, w)

\* fmt.Sprintf("%06d", id)
FormatID(id) == PadLeft(Digits(id), PadWidth)

\* fmt.Sprintf("%06d_%s.vhdx", id, timeStamp)
ArtifactName(id) == FormatID(id) \o <<Underscore, VhdxSuffix>>

\* a file of the same stem that is not an artifact (no .vhdx suffix)
OtherName(id) == FormatID(id) \o <<Underscore, OtherSuffix>>

\* strings.HasSuffix(name, ".vhdx")
HasVhdxSuffix(name) == Len(name) > 0 /\ name[Len(name)] = VhdxSuffix

\* a < b as Go compares strings
RECURSIVE StrLess(_, _)
StrLess(a, b) ==
    IF a = <<>> THEN b # <<>>
    ELSE IF b = <<>> THEN FALSE
    ELSE IF a[1] # b[1] THEN a[1] < b[1]
    ELSE StrLess(Tail(a), Tail(b))

\* sort.Strings over the names of a directory
RECURSIVE SortStrings(_)
SortStrings(S) ==
    IF S = {} THEN <<>>
    ELSE LET m == CHOOSE x \in S : \A y \in S : x = y \/ StrLess(x, y)
         IN  <<m>> \o SortStrings(S \ {m})

\* the .vhdx names of a directory listing, sorted: `names` of both functions
VhdxNames(entries) == SortStrings({e \in entries : HasVhdxSuffix(e)})

Range(q) == {q[k] : k \in 1..Len(q)}

-----------------------------------------------------------------------------
(* Tier directories.  A directory exists or not and holds a set of names.  *)

levels == <<"30m", "3h", "6h", "12h", "1d">>

Dir(exists, entries) == [exists |-> exists, entries |-> entries]

\* os.MkdirAll(dir); it returns nil at once when dir is a directory already,
\* so only the creation of a missing directory can fail
MkdirAll(d, level) == [d EXCEPT ![level].exists = TRUE]

\* a removal that leaves the file in place
RemoveKeeping(d, level, name) == d

\* os.Remove(filepath.Join(dir, name))
Remove(d, level, name) == [d EXCEPT ![level].entries = @ \ {name}]

\* a promotion that copies the file and leaves the source in place
RenameCopy(d, cur, next, name) == [d EXCEPT ![next].entries = @ \cup {name}]

\* os.Rename(src, dst) from the directory of cur into the directory of next
Rename(d, cur, next, name) ==
    [d EXCEPT ![cur].entries = @ \ {name}, ![next].entries = @ \cup {name}]

-----------------------------------------------------------------------------
(* Tier Promoter: one iteration of the loop of promoteBackup.              *)

\* a version of promoteBackup that never moves an artifact
promoteDueNever(im, n, keep) == FALSE

\* a version of promoteBackup that moves the oldest artifact of every tier
promoteDueAlways(n, keep) == TRUE

\* the threshold test of src/main.go
promoteDueMain(n, keep) == n > keep

\* the threshold test of the earlier duplicate, src/unnamed/part_001
promoteDuePart001(n, keep) == n >= keep

promoteDue(im, n, keep) ==
    IF im = "main" THEN promoteDueMain(n, keep) ELSE promoteDuePart001(n, keep)

\* what can go wrong in one iteration: nothing, os.MkdirAll of the
\* destination, os.ReadDir of the source, os.Stat of the destination (an error
\* other than not-exist), os.Rename, os.Remove
PromoteFaults == {"none", "mkdir", "readdir", "stat", "rename", "remove"}

\* an iteration that writes a log entry in every branch
promoteLogsEveryBranch(outcome) == TRUE

\* the branches of an iteration that call log.Printf (the dry-run branches
\* and the os.ReadDir error print with fmt or not at all)
promoteLogs(outcome) ==
    outcome \in {"mkdir-error", "rename-error", "moved", "remove-error", "source-removed"}

PromoteResult(d, outcome, old) == [dirs |-> d, outcome |-> outcome, old |-> old]

\* the iteration for the pair (levels[i], levels[i+1]); outcome names the
\* branch taken, old the selected name
promotePair(im, d, c, i, fault) ==
    LET cur == levels[i]
        next == levels[i + 1]
        d1 == IF c.DryRun THEN d ELSE MkdirAll(d, next)
        names == VhdxNames(d1[cur].entries)
    IN  IF ~c.DryRun /\ fault = "mkdir" /\ ~d[next].exists
        THEN PromoteResult(d, "mkdir-error", <<>>)
        ELSE IF ~d1[cur].exists \/ fault = "readdir"
        THEN PromoteResult(d1, "readdir-error", <<>>)
        ELSE IF ~promoteDue(im, Len(names), c.KeepVersions[cur])
        THEN PromoteResult(d1, "not-due", <<>>)
        ELSE IF Len(names) = 0 THEN PromoteResult(d1, "panic", <<>>)
        ELSE LET old == names[1]
             IN  IF c.DryRun THEN PromoteResult(d1, "dry-run", old)
                 ELSE IF old \notin d1[next].entries /\ fault # "stat"
                 THEN IF fault = "rename"
                      THEN PromoteResult(d1, "rename-error", old)
                      ELSE PromoteResult(Rename(d1, cur, next, old), "moved", old)
                 ELSE IF fault = "remove"
                      THEN PromoteResult(d1, "remove-error", old)
                      ELSE PromoteResult(Remove(d1, cur, old), "source-removed", old)

-----------------------------------------------------------------------------
(* Retention Rotator.                                                      *)

\* names[:n]
Prefix(q, n) == SubSeq(q, 1, n)

RotateFaults == {"none", "mkdir", "readdir"}

\* a rotation that deletes the newest surplus instead of the oldest
rotateSurplusNewest(names, keep) ==
    IF Len(names) > keep THEN Range(SubSeq(names, keep + 1, Len(names))) ELSE {}

\* the names the loop passes to os.Remove
rotateSurplus(names, keep) ==
    IF Len(names) > keep THEN Range(Prefix(names, Len(names) - keep)) ELSE {}

\* a rotation that also logs the deletions that failed
rotateLogsRemove(c, err, failing) == ~c.DryRun /\ (err # "nil" \/ failing # {})

\* whether a call of rotateBackupsWithPromotion writes to the log: it and the
\* loop of runBackup log a returned error unless dry_run is set; the result
\* of os.Remove is dropped
rotateLogs(c, err, failing) == ~c.DryRun /\ err # "nil"

\* failing: the names whose os.Remove fails
rotateBackupsWithPromotion(d, c, level, fault, failing) ==
    LET d1 == MkdirAll(d, level)
        names == VhdxNames(d1[level].entries)
        surplus == rotateSurplus(names, c.KeepVersions[level])
    IN  IF fault = "mkdir" /\ ~d[level].exists
        THEN [dirs |-> d, err |-> "other", surplus |-> {}]
        ELSE IF fault = "readdir" THEN [dirs |-> d1, err |-> "other", surplus |-> {}]
        ELSE IF c.DryRun THEN [dirs |-> d1, err |-> "nil", surplus |-> surplus]
        ELSE [dirs |-> [d1 EXCEPT ![level].entries = @ \ (surplus \ failing)],
              err |-> "nil", surplus |-> surplus]

-----------------------------------------------------------------------------
(* saveBackup and getNextID.                                               *)

\* nothing, os.MkdirAll, os.Open or os.Create, io.Copy (the file is created)
SaveBackupFaults == {"none", "mkdir", "create", "copy"}

saveBackup(d, c, level, filename, fault) ==
    IF c.DryRun THEN [dirs |-> d, err |-> "nil"]
    ELSE IF fault = "mkdir" /\ ~d[level].exists THEN [dirs |-> d, err |-> "other"]
    ELSE IF fault = "create" THEN [dirs |-> MkdirAll(d, level), err |-> "other"]
    ELSE [dirs |-> [MkdirAll(d, level) EXCEPT ![level].entries = @ \cup {filename}],
          err |-> IF fault = "copy" THEN "other" ELSE "nil"]

\* the number read from last_id.txt plus one, and the number the file holds
\* afterwards (getNextIDDryRun does not write it)
getNextID(last, dryRun) ==
    [id |-> last + 1, last |-> IF dryRun THEN last ELSE last + 1]

-----------------------------------------------------------------------------
(* The state of runBackup before its first call *)

NewCycle(d) ==
    [attempted |-> {}, rotated |-> {}, deleted |-> {}, saved |-> FALSE, start |-> d]

NoEvent == [op |-> "none"]

InitBackupLocals ==
    /\ lockFile = FALSE
    /\ bpc = [p \in Procs |-> "idle"]
    /\ bi = [p \in Procs |-> 1]
    /\ fname = [p \in Procs |-> <<>>]
    /\ held = [p \in Procs |-> FALSE]
    /\ bret = [p \in Procs |-> "nil"]
    /\ ev = NoEvent
    /\ faulted = FALSE
    /\ cycles = 0

EmptyTiers == [l \in Levels |-> Dir(FALSE, {})]

\* the part of the state the scheduling specifications do not use
InitNoBackup ==
    /\ InitBackupLocals
    /\ impl = "main"
    /\ dirs = EmptyTiers
    /\ lastID = 0
    /\ cyc = [p \in Procs |-> NewCycle(EmptyTiers)]

-----------------------------------------------------------------------------
(* History of executions: a bag keyed by <<level, minute>>.                *)

EmptyBag == [k \in {} |-> 0]

CountOf(b, k) == IF k \in DOMAIN b THEN b[k] ELSE 0

AddExec(b, level, t) ==
    LET k == <<level, MinuteOf(t)>> IN Put(b, k, CountOf(b, k) + 1)

NoCall == [op |-> "none"]

-----------------------------------------------------------------------------
(* The clock.  Bounded sets of readings: the times of day the drivers see  *)
(* (matching 1d, 3h, 30m and no rule), two seconds of each minute.         *)

ClockSlots == {<<0, 0>>, <<9, 0>>, <<9, 15>>, <<9, 30>>}

ClockSeconds == {0, 45}

TimeSet ==
    {Time(d, hm[1], hm[2], s, TRUE) : d \in 1..MaxDay, hm \in ClockSlots, s \in ClockSeconds}

Wall(t) == [t EXCEPT !.mono = TRUE]

\* the clock never goes back
Tick ==
    /\ \E t \in TimeSet : Abs(t) > Abs(clock) /\ clock' = t
    /\ UNCHANGED <<cfg, ledgerFile, pc, now, lvl, rec, ret, execs, lost, runs, call>>

\* keep_versions of the generated template
TemplateKeep == [l \in Levels |-> IF l \in {"30m", "1d"} THEN 5 ELSE 2]

BackupConfig(dry, file, lock, keep) ==
    [DryRun |-> dry, LastExecutionFile |-> file, EnableLock |-> lock, KeepVersions |-> keep]

Config(dry, file) == BackupConfig(dry, file, TRUE, TemplateKeep)

LedgerPath == "last_execution.json"

\* ledger files found at start-up: none, an unparsable one, "{}", and one
\* holding an earlier entry
InitialLedgers ==
    {MissingFile, CorruptFile, JsonFile(EmptyMap),
     JsonFile(Put(EmptyMap, "30m", EncodeTime(Time(1, 9, 30, 0, FALSE))))}

-----------------------------------------------------------------------------
(* runOneShotMode, in the steps between which another process can run:     *)
(* decide (time.Now and shouldExecuteBackup), run, and the load and save   *)
(* halves of recordLastExecution.                                          *)

\* what runOneShotMode returns when recordLastExecution returned err: the
\* dry-run branch logs the error and returns nil
oneShotResult(c, err) == IF c.DryRun THEN "nil" ELSE err

OneShotDecide(p) ==
    /\ pc[p] = "idle"
    /\ runs < MaxRuns
    /\ LET t == Wall(clock)
           d == shouldExecuteBackup(cfg, t, ledgerFile)
       IN  /\ now' = [now EXCEPT ![p] = t]
           /\ lvl' = [lvl EXCEPT ![p] = d.level]
           /\ ledgerFile' = shouldExecuteBackupFile(cfg, t, ledgerFile)
           /\ IF d.err # "nil"
              THEN pc' = pc /\ ret' = [ret EXCEPT ![p] = d.err]
              ELSE IF ~d.execute
              THEN pc' = pc /\ ret' = [ret EXCEPT ![p] = "nil"]
              ELSE /\ pc' = [pc EXCEPT ![p] = "run"]
                   /\ ret' = [ret EXCEPT ![p] = "running"]
    /\ runs' = runs + 1
    /\ UNCHANGED <<clock, cfg, rec, execs, lost, call>>

OneShotRun(p) ==
    /\ pc[p] = "run"
    /\ execs' = AddExec(execs, lvl[p], now[p])
    /\ dirs' = IF cfg.DryRun THEN dirs ELSE runBackupWithLevelDirs(cfg, lvl[p], dirs)
    /\ IF cfg.DryRun \/ runBackupWithLevel(cfg, lvl[p]) = "nil"
       THEN pc' = [pc EXCEPT ![p] = "record"] /\ ret' = ret
       ELSE pc' = [pc EXCEPT ![p] = "idle"] /\ ret' = [ret EXCEPT ![p] = "other"]
    /\ UNCHANGED <<clock, cfg, ledgerFile, now, lvl, rec, lost, runs, call>>

OneShotRecordLoad(p) ==
    /\ pc[p] = "record"
    /\ IF cfg.LastExecutionFile = ""
       THEN /\ pc' = [pc EXCEPT ![p] = "idle"]
            /\ ret' = [ret EXCEPT ![p] = "nil"]
            /\ rec' = rec
            /\ lost' = lost
       ELSE LET l == recordLoad(ledgerFile, lvl[p], now[p])
            IN  IF l.err # "nil"
                THEN /\ pc' = [pc EXCEPT ![p] = "idle"]
                     /\ ret' = [ret EXCEPT ![p] = oneShotResult(cfg, l.err)]
                     /\ rec' = rec
                     /\ lost' = lost \cup {<<lvl[p], MinuteOf(now[p])>>}
                ELSE /\ pc' = [pc EXCEPT ![p] = "save"]
                     /\ ret' = ret
                     /\ rec' = [rec EXCEPT ![p] = l.record]
                     /\ lost' = lost
    /\ UNCHANGED <<clock, cfg, ledgerFile, now, lvl, execs, runs, call>>

OneShotRecordSave(p) ==
    /\ pc[p] = "save"
    /\ \E fault \in SaveFaults :
          LET s == saveLastExecutionRecord(ledgerFile, rec[p], fault)
          IN  /\ ledgerFile' = s.file
              /\ ret' = [ret EXCEPT ![p] = oneShotResult(cfg, s.err)]
              /\ lost' = IF s.err = "nil" THEN lost
                         ELSE lost \cup {<<lvl[p], MinuteOf(now[p])>>}
    /\ pc' = [pc EXCEPT ![p] = "idle"]
    /\ rec' = [rec EXCEPT ![p] = EmptyMap]
    /\ UNCHANGED <<clock, cfg, now, lvl, execs, runs, call>>

\* invocations that do not overlap: one starts only when none is running
NoneRunning == \A q \in Procs : pc[q] = "idle"

\* the first reading of the modelled period
StartOfPeriod == Time(1, 0, 0, 0, TRUE)

InitLocals ==
    /\ pc = [p \in Procs |-> "idle"]
    /\ now = [p \in Procs |-> ZeroTime]
    /\ lvl = [p \in Procs |-> NoLevel]
    /\ rec = [p \in Procs |-> EmptyMap]
    /\ ret = [p \in Procs |-> "nil"]
    /\ execs = EmptyBag
    /\ lost = {}
    /\ runs = 0
    /\ call = NoCall

InitSched == clock = StartOfPeriod /\ InitLocals

InitOneShot ==
    /\ InitSched
    /\ InitNoBackup
    /\ cfg \in {Config(dry, LedgerPath) : dry \in BOOLEAN}
    /\ ledgerFile \in InitialLedgers

\* a sequence of invocations, one after the other, is one process restarted
SeqProcs == {"p1"}

NextOneShot ==
    /\ \/ Tick
       \/ \E p \in SeqProcs : NoneRunning /\ OneShotDecide(p)
       \/ \E p \in SeqProcs : OneShotRun(p)
       \/ \E p \in SeqProcs : OneShotRecordLoad(p)
       \/ \E p \in SeqProcs : OneShotRecordSave(p)
    /\ UNCHANGED bakVars

\* the process dies between two steps of runOneShotMode, or inside the
\* os.WriteFile of saveLastExecutionRecord, which then leaves a truncated file
Crash(p) ==
    /\ pc[p] # "idle"
    /\ pc' = [pc EXCEPT ![p] = "idle"]
    /\ ret' = [ret EXCEPT ![p] = "crashed"]
    /\ rec' = [rec EXCEPT ![p] = EmptyMap]
    /\ ledgerFile' \in {ledgerFile} \cup (IF pc[p] = "save" THEN {CorruptFile} ELSE {})
    /\ UNCHANGED <<clock, cfg, now, lvl, execs, lost, runs, call>>

\* sequential invocations any of which can die before it returns
InitCrash ==
    /\ InitSched
    /\ InitNoBackup
    /\ cfg \in {Config(dry, LedgerPath) : dry \in BOOLEAN}
    /\ ledgerFile = MissingFile

NextCrash ==
    /\ \/ Tick
       \/ \E p \in SeqProcs : NoneRunning /\ OneShotDecide(p)
       \/ \E p \in SeqProcs : OneShotRun(p)
       \/ \E p \in SeqProcs : OneShotRecordLoad(p)
       \/ \E p \in SeqProcs : OneShotRecordSave(p)
       \/ \E p \in SeqProcs : Crash(p)
    /\ UNCHANGED bakVars

\* invocations started by the external scheduler while an earlier one may
\* still be running, on one ledger file and with no lock around the ledger,
\* in the last day of the modelled period
InitRace ==
    /\ clock = Time(MaxDay, 0, 0, 0, TRUE)
    /\ InitLocals
    /\ InitNoBackup
    /\ cfg = Config(FALSE, LedgerPath)
    /\ ledgerFile = MissingFile

NextRace ==
    /\ \/ Tick
       \/ \E p \in Procs : OneShotDecide(p)
       \/ \E p \in Procs : OneShotRun(p)
       \/ \E p \in Procs : OneShotRecordLoad(p)
       \/ \E p \in Procs : OneShotRecordSave(p)
    /\ UNCHANGED bakVars

-----------------------------------------------------------------------------
(* runDaemonMode: the loop body (time.Now, determineBestBackupLevel, the   *)
(* backup) and the 30 second sleep that follows it.                        *)

SleepSeconds == 30

\* seconds the loop body and the scheduler add to the 30 second sleep
LoopDelays == {0, 15, 60}

DaemonEval(p) ==
    /\ pc[p] = "loop"
    /\ runs < MaxIter
    /\ LET t == Wall(clock)
           v == determineBestBackupLevel(t)
       IN  /\ now' = [now EXCEPT ![p] = t]
           /\ lvl' = [lvl EXCEPT ![p] = v.level]
           /\ IF v.ok
              THEN /\ execs' = AddExec(execs, v.level, t)
                   /\ ret' = [ret EXCEPT ![p] =
                                 IF cfg.DryRun THEN "nil" ELSE runBackupWithLevel(cfg, v.level)]
              ELSE execs' = execs /\ ret' = ret
    /\ pc' = [pc EXCEPT ![p] = "sleep"]
    /\ runs' = runs + 1
    /\ UNCHANGED <<clock, cfg, ledgerFile, rec, lost, call>>

DaemonSleep(p) ==
    /\ pc[p] = "sleep"
    /\ \E d \in LoopDelays : clock' = AddSeconds(clock, SleepSeconds + d)
    /\ pc' = [pc EXCEPT ![p] = "loop"]
    /\ UNCHANGED <<cfg, ledgerFile, now, lvl, rec, ret, execs, lost, runs, call>>

\* the daemon is started shortly before or inside a matching minute
DaemonStarts ==
    {Time(1, hm[1], hm[2], s, TRUE) :
        hm \in {<<9, 29>>, <<9, 30>>, <<23, 59>>, <<11, 59>>}, s \in {0, 15, 30, 45}}

InitDaemon ==
    /\ InitNoBackup
    /\ clock \in DaemonStarts
    /\ pc = [p \in Procs |-> IF p \in SeqProcs THEN "loop" ELSE "idle"]
    /\ now = [p \in Procs |-> ZeroTime]
    /\ lvl = [p \in Procs |-> NoLevel]
    /\ rec = [p \in Procs |-> EmptyMap]
    /\ ret = [p \in Procs |-> "nil"]
    /\ execs = EmptyBag
    /\ lost = {}
    /\ runs = 0
    /\ call = NoCall
    /\ cfg \in {Config(dry, LedgerPath) : dry \in BOOLEAN}
    /\ ledgerFile \in {MissingFile, JsonFile(EmptyMap)}

NextDaemon ==
    /\ \/ \E p \in SeqProcs : DaemonEval(p)
       \/ \E p \in SeqProcs : DaemonSleep(p)
    /\ UNCHANGED bakVars

-----------------------------------------------------------------------------
(* The core API called directly, as the tests call it.                     *)

\* every minute of a day, at its first and last second, on the modelled days
AllTimes ==
    {Time(d, h, m, s, TRUE) : d \in 1..MaxDay, h \in 0..23, m \in 0..59, s \in {0, 59}}

CallClassify ==
    /\ call.op = "none"
    /\ call' = [op |-> "classify", t |-> clock, ret |-> determineBestBackupLevel(clock)]
    /\ UNCHANGED <<clock, cfg, ledgerFile, pc, now, lvl, rec, ret, execs, lost, runs>>

InitClassify ==
    /\ InitLocals
    /\ InitNoBackup
    /\ clock \in AllTimes
    /\ cfg = Config(FALSE, LedgerPath)
    /\ ledgerFile = MissingFile

NextClassify == CallClassify /\ UNCHANGED bakVars

CallShould ==
    /\ runs < MaxCalls
    /\ \E t \in TimeSet :
          /\ call' = [op |-> "should", t |-> t, before |-> ledgerFile,
                      reads |-> shouldExecuteBackupReads(cfg, t),
                      ret |-> shouldExecuteBackup(cfg, t, ledgerFile)]
          /\ ledgerFile' = shouldExecuteBackupFile(cfg, t, ledgerFile)
    /\ runs' = runs + 1
    /\ UNCHANGED <<clock, cfg, pc, now, lvl, rec, ret, execs, lost>>

CallRecord ==
    /\ runs < MaxCalls
    /\ \E level \in Levels, t \in TimeSet, fault \in SaveFaults :
          LET r == recordLastExecution(cfg, ledgerFile, level, t, fault)
          IN  /\ ledgerFile' = r.file
              /\ call' = [op |-> "record", t |-> t, level |-> level,
                          before |-> ledgerFile, ret |-> r.err]
    /\ runs' = runs + 1
    /\ UNCHANGED <<clock, cfg, pc, now, lvl, rec, ret, execs, lost>>

InitLedger ==
    /\ InitSched
    /\ InitNoBackup
    /\ cfg \in {Config(FALSE, file) : file \in {"", LedgerPath}}
    /\ ledgerFile \in {MissingFile, CorruptFile, JsonFile(EmptyMap)}

NextLedger == (CallShould \/ CallRecord) /\ UNCHANGED bakVars

\* one whole invocation of the one-shot driver
CallOneShot ==
    /\ runs < MaxCalls
    /\ \E t \in TimeSet, fault \in SaveFaults :
          LET r == runOneShotMode(cfg, t, ledgerFile, fault)
          IN  /\ ledgerFile' = r.file
              /\ call' = [op |-> "oneshot", t |-> t, before |-> ledgerFile, ret |-> r]
    /\ runs' = runs + 1
    /\ UNCHANGED <<clock, cfg, pc, now, lvl, rec, ret, execs, lost>>

\* records handed to saveLastExecutionRecord: every mapping of some of three
\* levels to the zero time, readings of time.Now() and a decoded timestamp
SavedLevels == {"30m", "3h", "1d"}

SavedTimes ==
    {ZeroTime, Time(1, 9, 30, 45, TRUE), Time(MaxDay, 0, 0, 0, TRUE), Time(1, 9, 30, 0, FALSE)}

Records == UNION {[D -> SavedTimes] : D \in SUBSET SavedLevels}

CallSave ==
    /\ \E record \in Records, fault \in SaveFaults :
          LET r == saveLastExecutionRecord(ledgerFile, record, fault)
          IN  /\ ledgerFile' = r.file
              /\ call' = [op |-> "save", record |-> record, ret |-> r.err]
    /\ UNCHANGED <<clock, cfg, pc, now, lvl, rec, ret, execs, lost, runs>>

\* the load that follows a save, as in the persistence test
CallLoad ==
    /\ call.op = "save"
    /\ call' = [op |-> "load", record |-> call.record, saved |-> call.ret,
                ret |-> loadLastExecutionRecord(ledgerFile)]
    /\ UNCHANGED <<clock, cfg, ledgerFile, pc, now, lvl, rec, ret, execs, lost, runs>>

InitRoundTrip ==
    /\ InitSched
    /\ InitNoBackup
    /\ cfg = Config(FALSE, LedgerPath)
    /\ ledgerFile \in InitialLedgers

NextRoundTrip == (CallSave \/ CallLoad) /\ UNCHANGED bakVars

\* a ledger file that is unparsable from the start
InitFailClosed ==
    /\ InitSched
    /\ InitNoBackup
    /\ cfg \in {Config(dry, LedgerPath) : dry \in BOOLEAN}
    /\ ledgerFile = CorruptFile

NextFailClosed == (CallShould \/ CallRecord \/ CallOneShot) /\ UNCHANGED bakVars

-----------------------------------------------------------------------------
(* runBackup: lock, sequence number, copy, then the rotation section       *)
(* (promoteBackup over the chain, rotateBackupsWithPromotion per level,    *)
(* saveBackup into 30m), one step per file operation loop iteration.       *)

\* the order of the rotation section
runBackupOrderRotateFirst == <<"rotate", "promote", "save">>

runBackupOrder == <<"promote", "rotate", "save">>

StepAfter(ph) ==
    LET k == CHOOSE j \in 1..Len(runBackupOrder) : runBackupOrder[j] = ph
    IN  IF k = Len(runBackupOrder) THEN "return" ELSE runBackupOrder[k + 1]

Pairs == 1..(Len(levels) - 1)

\* os.Remove of the lock file can fail; releaseFileLock drops its error
ReleaseFaults == {"none", "remove"}

\* a release that leaves the lock file where it is
releaseFileLockKeeping(lock, f, fault) == lock

\* releaseFileLock(f): nothing for a nil f, else Close and os.Remove
releaseFileLock(lock, f, fault) ==
    IF f /\ fault = "none" THEN FALSE ELSE lock

\* return from runBackup: the deferred releaseFileLock runs for a process
\* that acquired the lock, on every return and on a panic
Return(p, err, fault) ==
    /\ fault = "none" \/ held[p]
    /\ bpc' = [bpc EXCEPT ![p] = "idle"]
    /\ bret' = [bret EXCEPT ![p] = err]
    /\ held' = [held EXCEPT ![p] = FALSE]
    /\ lockFile' = releaseFileLock(lockFile, held[p], fault)

\* an error returned where the lock is not acquired
LockConflictError == "other"

\* what runBackup returns after notify(cfg, NotifyLockConflict, ...)
LockConflictReturn == "nil"

\* an os.OpenFile with O_CREATE and no O_EXCL: it opens a file that exists
openLockFileShared(lock, fault) ==
    IF fault = "open" THEN [err |-> "other", lock |-> lock]
    ELSE [err |-> "nil", lock |-> TRUE]

\* os.OpenFile(path, O_CREATE|O_EXCL|O_RDWR): creates the file, or fails
\* because it exists or for another reason
openLockFile(lock, fault) ==
    IF lock THEN [err |-> "exist", lock |-> lock]
    ELSE IF fault = "open" THEN [err |-> "other", lock |-> lock]
    ELSE [err |-> "nil", lock |-> TRUE]

\* acquireFileLock: the conflict branch returns nil after the notification
BackupLock(p) ==
    /\ bpc[p] = "idle"
    /\ cycles < MaxCycles
    /\ cycles' = cycles + 1
    /\ cyc' = [cyc EXCEPT ![p] = NewCycle(dirs)]
    /\ IF cfg.EnableLock /\ ~cfg.DryRun
       THEN IF lockFile
            THEN /\ bret' = [bret EXCEPT ![p] = LockConflictReturn]
                 /\ ev' = [op |-> "lock-conflict", proc |-> p, present |-> TRUE]
                 /\ UNCHANGED <<bpc, held, lockFile>>
            ELSE /\ lockFile' = TRUE
                 /\ held' = [held EXCEPT ![p] = TRUE]
                 /\ bpc' = [bpc EXCEPT ![p] = "id"]
                 /\ bret' = [bret EXCEPT ![p] = "running"]
                 /\ ev' = [op |-> "lock", proc |-> p]
       ELSE /\ bpc' = [bpc EXCEPT ![p] = "id"]
            /\ bret' = [bret EXCEPT ![p] = "running"]
            /\ ev' = [op |-> "lock-skipped", proc |-> p]
            /\ UNCHANGED <<held, lockFile>>
    /\ UNCHANGED <<impl, dirs, lastID, bi, fname, faulted>>

\* getNextID and the file name; an error of getNextID is returned
BackupID(p) ==
    /\ bpc[p] = "id"
    /\ \E fault \in {"none", "open"} :
          IF fault = "open"
          THEN /\ \E rf \in ReleaseFaults :
                     /\ Return(p, "other", rf)
                     /\ ev' = [op |-> "id", proc |-> p, err |-> "other", release |-> rf]
               /\ faulted' = TRUE
               /\ UNCHANGED <<lastID, fname>>
          ELSE LET r == getNextID(lastID, cfg.DryRun)
               IN  /\ lastID' = r.last
                   /\ fname' = [fname EXCEPT ![p] = ArtifactName(r.id)]
                   /\ bpc' = [bpc EXCEPT ![p] = "copy"]
                   /\ ev' = [op |-> "id", proc |-> p, err |-> "nil"]
                   /\ UNCHANGED <<bret, held, lockFile, faulted>>
    /\ UNCHANGED <<impl, dirs, bi, cyc, cycles>>

\* mountVHDX and tryCopy: either fails and runBackup returns the error
BackupCopy(p) ==
    /\ bpc[p] = "copy"
    /\ \E fault \in {"none", "mount", "copy"} :
          IF fault = "none"
          THEN /\ bpc' = [bpc EXCEPT ![p] = runBackupOrder[1]]
               /\ bi' = [bi EXCEPT ![p] = 1]
               /\ ev' = [op |-> "copy", proc |-> p, err |-> "nil"]
               /\ UNCHANGED <<bret, held, lockFile, faulted>>
          ELSE /\ \E rf \in ReleaseFaults :
                     /\ Return(p, "other", rf)
                     /\ ev' = [op |-> "copy", proc |-> p, err |-> "other", release |-> rf]
               /\ bi' = bi
               /\ faulted' = TRUE
    /\ UNCHANGED <<impl, dirs, lastID, fname, cyc, cycles>>

\* leaving a loop of the rotation section, or going round it again
Advance(p, ph, last) ==
    IF bi[p] = last
    THEN /\ bpc' = [bpc EXCEPT ![p] = StepAfter(ph)]
         /\ bi' = [bi EXCEPT ![p] = 1]
    ELSE /\ bpc' = bpc
         /\ bi' = [bi EXCEPT ![p] = bi[p] + 1]

\* one iteration of the loop of promoteBackup
BackupPromote(p) ==
    /\ bpc[p] = "promote"
    /\ \E fault \in PromoteFaults :
          LET i == bi[p]
              r == promotePair(impl, dirs, cfg, i, fault)
          IN  /\ fault = "none" \/ r # promotePair(impl, dirs, cfg, i, "none")
              /\ dirs' = r.dirs
              /\ \E rf \in ReleaseFaults :
                    /\ r.outcome = "panic" \/ rf = "none"
                    /\ ev' = [op |-> "promote", proc |-> p, i |-> i, fault |-> fault,
                              outcome |-> r.outcome, old |-> r.old, before |-> dirs,
                              logged |-> promoteLogs(r.outcome), release |-> rf]
              /\ cyc' = [cyc EXCEPT ![p].attempted = @ \cup {i}]
              /\ IF r.outcome = "panic"
                 THEN /\ Return(p, "panic", ev'.release)
                      /\ bi' = bi
                      /\ faulted' = (faulted \/ ev'.release # "none"
                                         \/ r # promotePair(impl, dirs, cfg, i, "none"))
                 ELSE /\ Advance(p, "promote", Len(levels) - 1)
                      /\ faulted' = (faulted \/ r # promotePair(impl, dirs, cfg, i, "none"))
                      /\ UNCHANGED <<bret, held, lockFile>>
    /\ UNCHANGED <<impl, lastID, fname, cycles>>

\* one iteration of the rotation loop: rotateBackupsWithPromotion(levels[bi])
BackupRotate(p) ==
    /\ bpc[p] = "rotate"
    /\ LET level == levels[bi[p]]
           surplus == rotateSurplus(VhdxNames(dirs[level].entries), cfg.KeepVersions[level])
       IN  \E fault \in RotateFaults, failing \in SUBSET surplus :
              LET r == rotateBackupsWithPromotion(dirs, cfg, level, fault, failing)
              IN  /\ fault = "none" \/ failing = {}
                  /\ failing = {} \/ ~cfg.DryRun
                  /\ dirs' = r.dirs
                  /\ ev' = [op |-> "rotate", proc |-> p, level |-> level, fault |-> fault,
                            failing |-> failing, err |-> r.err, before |-> dirs,
                            logged |-> rotateLogs(cfg, r.err, failing)]
                  /\ faulted' =
                        (faulted \/ r # rotateBackupsWithPromotion(dirs, cfg, level, "none", {}))
                  /\ cyc' = [cyc EXCEPT ![p].rotated = @ \cup {level},
                                        ![p].deleted = @ \cup
                                            (dirs[level].entries \ r.dirs[level].entries)]
    /\ Advance(p, "rotate", Len(levels))
    /\ UNCHANGED <<impl, lastID, lockFile, fname, held, bret, cycles>>

\* saveBackup into the directory of 30m, then the return of runBackup
BackupSave(p) ==
    /\ bpc[p] = "save"
    /\ \E fault \in SaveBackupFaults :
          LET r == saveBackup(dirs, cfg, levels[1], fname[p], fault)
          IN  /\ fault = "none" \/ r # saveBackup(dirs, cfg, levels[1], fname[p], "none")
              /\ dirs' = r.dirs
              /\ cyc' = [cyc EXCEPT ![p].saved = TRUE]
              /\ \E rf \in ReleaseFaults :
                    /\ ev' = [op |-> "save", proc |-> p, fault |-> fault, err |-> r.err,
                              name |-> fname[p], before |-> dirs, release |-> rf]
                    /\ Return(p, r.err, rf)
                    /\ faulted' = (faulted \/ r.err # "nil" \/ rf # "none")
    /\ bi' = bi
    /\ UNCHANGED <<impl, lastID, fname, cycles>>

NoBackupRunning == \A q \in Procs : bpc[q] = "idle"

\* runBackup up to the os.Stat of acquireFileLock, for processes that run
\* side by side: a lock file that is there ends the invocation
LockStat(p) ==
    /\ bpc[p] = "idle"
    /\ cycles < MaxCycles
    /\ cycles' = cycles + 1
    /\ cyc' = [cyc EXCEPT ![p] = NewCycle(dirs)]
    /\ IF cfg.EnableLock /\ ~cfg.DryRun
       THEN IF lockFile
            THEN /\ bret' = [bret EXCEPT ![p] = LockConflictReturn]
                 /\ ev' = [op |-> "lock-conflict", proc |-> p, present |-> TRUE]
                 /\ bpc' = bpc
            ELSE /\ bpc' = [bpc EXCEPT ![p] = "open"]
                 /\ bret' = [bret EXCEPT ![p] = "running"]
                 /\ ev' = [op |-> "stat", proc |-> p]
       ELSE /\ bpc' = [bpc EXCEPT ![p] = "id"]
            /\ bret' = [bret EXCEPT ![p] = "running"]
            /\ ev' = [op |-> "lock-skipped", proc |-> p]
    /\ UNCHANGED <<impl, dirs, lastID, lockFile, bi, fname, held, faulted>>

\* the os.OpenFile of acquireFileLock and the test of its error in runBackup
LockOpen(p) ==
    /\ bpc[p] = "open"
    /\ \E fault \in {"none", "open"} :
          LET r == openLockFile(lockFile, fault)
          IN  /\ fault = "none" \/ r # openLockFile(lockFile, "none")
              /\ lockFile' = r.lock
              /\ faulted' = (faulted \/ fault # "none")
              /\ IF r.err # "nil"
                 THEN /\ bpc' = [bpc EXCEPT ![p] = "idle"]
                      /\ bret' = [bret EXCEPT ![p] = LockConflictReturn]
                      /\ ev' = [op |-> "lock-conflict", proc |-> p, present |-> lockFile]
                      /\ held' = held
                 ELSE /\ bpc' = [bpc EXCEPT ![p] = "id"]
                      /\ bret' = bret
                      /\ ev' = [op |-> "lock", proc |-> p]
                      /\ held' = [held EXCEPT ![p] = TRUE]
    /\ UNCHANGED <<impl, dirs, lastID, bi, fname, cyc, cycles>>

Implementations == {"main", "part_001"}

\* keep_versions: the same count in every tier, or more in 30m than above
KeepChoices ==
    {[l \in Levels |-> k] : k \in 1..MaxKeep}
        \cup {[l \in Levels |-> IF l = "30m" THEN MaxKeep ELSE 1]}

\* a fresh installation: no tier directory, no sequence number file
InitBackup ==
    /\ InitSched
    /\ ledgerFile = MissingFile
    /\ InitBackupLocals
    /\ impl \in Implementations
    /\ cfg \in {BackupConfig(dry, LedgerPath, TRUE, keep) :
                    dry \in BOOLEAN, keep \in KeepChoices}
    /\ dirs = EmptyTiers
    /\ lastID = 0
    /\ cyc = [p \in Procs |-> NewCycle(dirs)]

NextLock ==
    /\ \/ \E p \in Procs : LockStat(p)
       \/ \E p \in Procs : LockOpen(p)
       \/ \E p \in Procs : BackupID(p)
       \/ \E p \in Procs : BackupCopy(p)
       \/ \E p \in Procs : BackupPromote(p)
       \/ \E p \in Procs : BackupRotate(p)
       \/ \E p \in Procs : BackupSave(p)
    /\ UNCHANGED schedVars

\* the names an installation that has run MaxPre cycles has produced
PreNames == {ArtifactName(id) : id \in 1..MaxPre}

\* where one of them is: nowhere (deleted), in one tier, or in two (a copy
\* made by hand or left by a restore)
Places == {{}, {"30m"}, {"3h"}, {"6h"}, {"30m", "3h"}}

\* the directory of 30m also holds a file that is not an artifact
Placed(place) ==
    [l \in Levels |->
        Dir(TRUE, {n \in PreNames : l \in place[n]}
                      \cup (IF l = "30m" THEN {OtherName(1)} ELSE {}))]

\* an installation in use: every tier directory exists, the sequence number
\* file holds the last number given out, one more cycle is run
InitTiers ==
    /\ InitSched
    /\ ledgerFile = MissingFile
    /\ impl \in Implementations
    /\ cfg \in {BackupConfig(dry, LedgerPath, TRUE, keep) :
                    dry \in BOOLEAN, keep \in KeepChoices}
    /\ dirs \in {Placed(place) : place \in [PreNames -> Places]}
    /\ lastID = MaxPre
    /\ cyc = [p \in Procs |-> NewCycle(dirs)]
    /\ lockFile = FALSE
    /\ bpc = [p \in Procs |-> "idle"]
    /\ bi = [p \in Procs |-> 1]
    /\ fname = [p \in Procs |-> <<>>]
    /\ held = [p \in Procs |-> FALSE]
    /\ bret = [p \in Procs |-> "nil"]
    /\ ev = NoEvent
    /\ faulted = FALSE
    /\ cycles = MaxCycles - 1

\* keep_versions with levels whose key is missing (the map yields 0)
ZeroKeepChoices ==
    {[l \in Levels |-> 0], [l \in Levels |-> IF l = "30m" THEN 1 ELSE 0]}

\* a fresh installation whose configuration lacks keep_versions entries
InitZeroKeep ==
    /\ InitSched
    /\ ledgerFile = MissingFile
    /\ impl \in Implementations
    /\ cfg \in {BackupConfig(dry, LedgerPath, TRUE, keep) :
                    dry \in BOOLEAN, keep \in ZeroKeepChoices}
    /\ dirs = EmptyTiers
    /\ lastID = 0
    /\ cyc = [p \in Procs |-> NewCycle(dirs)]
    /\ lockFile = FALSE
    /\ bpc = [p \in Procs |-> "idle"]
    /\ bi = [p \in Procs |-> 1]
    /\ fname = [p \in Procs |-> <<>>]
    /\ held = [p \in Procs |-> FALSE]
    /\ bret = [p \in Procs |-> "nil"]
    /\ ev = NoEvent
    /\ faulted = FALSE
    /\ cycles = MaxCycles - 2

NextBackup ==
    /\ \/ \E p \in SeqProcs : NoBackupRunning /\ BackupLock(p)
       \/ \E p \in SeqProcs : BackupID(p)
       \/ \E p \in SeqProcs : BackupCopy(p)
       \/ \E p \in SeqProcs : BackupPromote(p)
       \/ \E p \in SeqProcs : BackupRotate(p)
       \/ \E p \in SeqProcs : BackupSave(p)
    /\ UNCHANGED schedVars

-----------------------------------------------------------------------------
(* The two versions of promoteBackup side by side: the rotation section of *)
(* runBackup as a function of the tier directories, with no failing        *)
(* operation and dry_run false.  The variable call holds the directories   *)
(* under each version.                                                     *)

RECURSIVE promoteBackup(_, _, _, _)
\* the loop of promoteBackup from pair i on
promoteBackup(im, d, c, i) ==
    IF i > Len(levels) - 1 THEN d
    ELSE promoteBackup(im, promotePair(im, d, c, i, "none").dirs, c, i + 1)

RECURSIVE rotateAll(_, _, _)
\* the loop of runBackup over the levels, from level i on
rotateAll(d, c, i) ==
    IF i > Len(levels) THEN d
    ELSE rotateAll(rotateBackupsWithPromotion(d, c, levels[i], "none", {}).dirs, c, i + 1)

\* promotion, rotation and the save of the artifact with sequence number id
rotationSection(im, d, c, id) ==
    saveBackup(rotateAll(promoteBackup(im, d, c, 1), c, 1), c, levels[1],
               ArtifactName(id), "none").dirs

Twin(main, part001) == [op |-> "twin", main |-> main, part001 |-> part001]

TwinCycle ==
    /\ call.op = "twin"
    /\ cycles < MaxTwin
    /\ cycles' = cycles + 1
    /\ lastID' = getNextID(lastID, cfg.DryRun).last
    /\ call' = Twin(rotationSection("main", call.main, cfg, lastID'),
                    rotationSection("part_001", call.part001, cfg, lastID'))
    /\ UNCHANGED <<impl, dirs, lockFile, bpc, bi, fname, held, bret, cyc, ev, faulted>>
    /\ UNCHANGED <<clock, cfg, ledgerFile, pc, now, lvl, rec, ret, execs, lost, runs>>

\* keep_versions of every level from 1 to MaxKeep, both versions started on
\* the empty tiers of a fresh installation
InitTwin ==
    /\ clock = StartOfPeriod
    /\ pc = [p \in Procs |-> "idle"]
    /\ now = [p \in Procs |-> ZeroTime]
    /\ lvl = [p \in Procs |-> NoLevel]
    /\ rec = [p \in Procs |-> EmptyMap]
    /\ ret = [p \in Procs |-> "nil"]
    /\ execs = EmptyBag
    /\ lost = {}
    /\ runs = 0
    /\ call = Twin(EmptyTiers, EmptyTiers)
    /\ ledgerFile = MissingFile
    /\ InitBackupLocals
    /\ impl = "main"
    /\ cfg \in {BackupConfig(FALSE, LedgerPath, TRUE, keep) :
                    keep \in [Levels -> 1..MaxKeep]}
    /\ dirs = EmptyTiers
    /\ lastID = 0
    /\ cyc = [p \in Procs |-> NewCycle(dirs)]

NextTwin == TwinCycle

-----------------------------------------------------------------------------
(* The rotation section with the history of every artifact: the tier       *)
(* directories, the directories each name was put into (by saveBackup and  *)
(* by the os.Rename of promoteBackup, in that order) and the names rotation *)
(* removed, with the level they were removed from.                         *)

RECURSIVE promoteHist(_, _, _, _)
promoteHist(im, h, c, i) ==
    IF i > Len(levels) - 1 THEN h
    ELSE LET d == promotePair(im, h.dirs, c, i, "none").dirs
             moved == d[levels[i + 1]].entries \ h.dirs[levels[i + 1]].entries
         IN  promoteHist(im,
                 [h EXCEPT !.dirs = d,
                           !.path = [n \in DOMAIN h.path |->
                                        IF n \in moved
                                        THEN Append(h.path[n], levels[i + 1])
                                        ELSE h.path[n]]],
                 c, i + 1)

RECURSIVE rotateHist(_, _, _)
rotateHist(h, c, i) ==
    IF i > Len(levels) THEN h
    ELSE LET d == rotateBackupsWithPromotion(h.dirs, c, levels[i], "none", {}).dirs
             removed == h.dirs[levels[i]].entries \ d[levels[i]].entries
         IN  rotateHist(
                 [h EXCEPT !.dirs = d,
                           !.deleted = @ \cup {<<n, levels[i]>> : n \in removed}],
                 c, i + 1)

\* one cycle: promotion, rotation and the save of the artifact numbered id
cycleHist(im, h, c, id) ==
    LET r == rotateHist(promoteHist(im, h, c, 1), c, 1)
        filename == ArtifactName(id)
    IN  [r EXCEPT !.dirs = saveBackup(r.dirs, c, levels[1], filename, "none").dirs,
                  !.path = [n \in DOMAIN r.path \cup {filename} |->
                               IF n = filename THEN <<levels[1]>> ELSE r.path[n]]]

ChainCycle ==
    /\ call.op = "chain"
    /\ cycles < MaxTwin
    /\ cycles' = cycles + 1
    /\ lastID' = getNextID(lastID, cfg.DryRun).last
    /\ call' = [call EXCEPT !.hist = cycleHist(impl, call.hist, cfg, lastID')]
    /\ UNCHANGED <<impl, dirs, lockFile, bpc, bi, fname, held, bret, cyc, ev, faulted>>
    /\ UNCHANGED <<clock, cfg, ledgerFile, pc, now, lvl, rec, ret, execs, lost, runs>>

\* empty tiers, keep_versions of every level from 1 to MaxKeep, either
\* version of promoteBackup
InitChain ==
    /\ clock = StartOfPeriod
    /\ pc = [p \in Procs |-> "idle"]
    /\ now = [p \in Procs |-> ZeroTime]
    /\ lvl = [p \in Procs |-> NoLevel]
    /\ rec = [p \in Procs |-> EmptyMap]
    /\ ret = [p \in Procs |-> "nil"]
    /\ execs = EmptyBag
    /\ lost = {}
    /\ runs = 0
    /\ call = [op |-> "chain",
               hist |-> [dirs |-> EmptyTiers, path |-> <<>>, deleted |-> {}]]
    /\ ledgerFile = MissingFile
    /\ InitBackupLocals
    /\ impl \in Implementations
    /\ cfg \in {BackupConfig(FALSE, LedgerPath, TRUE, keep) :
                    keep \in [Levels -> 1..MaxKeep]}
    /\ dirs = EmptyTiers
    /\ lastID = 0
    /\ cyc = [p \in Procs |-> NewCycle(dirs)]

NextChain == ChainCycle

-----------------------------------------------------------------------------
(* The names of successive cycles: getNextID and the file name runBackup   *)
(* builds from it, dry_run false.  The variable call holds the names in    *)
(* the order of their creation.                                            *)

RECURSIVE Pow10(_)
Pow10(k) == IF k = 0 THEN 1 ELSE 10 * Pow10(k - 1)

\* what last_id.txt holds at the start: nothing, or a number a few cycles
\* before one that needs another digit, up to the first number wider than
\* the padding
StartIDs == {0} \cup {Pow10(k) - back : k \in 1..(PadWidth + 1), back \in 1..MaxPre}

Created(names) == [op |-> "names", names |-> names]

NameCycle ==
    /\ call.op = "names"
    /\ cycles < MaxTwin
    /\ cycles' = cycles + 1
    /\ LET n == getNextID(lastID, cfg.DryRun)
       IN  /\ lastID' = n.last
           /\ call' = Created(Append(call.names, ArtifactName(n.id)))
    /\ UNCHANGED <<impl, dirs, lockFile, bpc, bi, fname, held, bret, cyc, ev, faulted>>
    /\ UNCHANGED <<clock, cfg, ledgerFile, pc, now, lvl, rec, ret, execs, lost, runs>>

InitNames ==
    /\ clock = StartOfPeriod
    /\ pc = [p \in Procs |-> "idle"]
    /\ now = [p \in Procs |-> ZeroTime]
    /\ lvl = [p \in Procs |-> NoLevel]
    /\ rec = [p \in Procs |-> EmptyMap]
    /\ ret = [p \in Procs |-> "nil"]
    /\ execs = EmptyBag
    /\ lost = {}
    /\ runs = 0
    /\ call = Created(<<>>)
    /\ ledgerFile = MissingFile
    /\ InitBackupLocals
    /\ impl = "main"
    /\ cfg = BackupConfig(FALSE, LedgerPath, TRUE, TemplateKeep)
    /\ dirs = EmptyTiers
    /\ lastID \in StartIDs
    /\ cyc = [p \in Procs |-> NewCycle(dirs)]

NextNames == NameCycle

-----------------------------------------------------------------------------
(* tryCopy: the loop over the copy methods.  The executables found on the  *)
(* search path and the methods whose attempt succeeds are inputs.          *)

defaultMethods == <<"robocopy", "xcopy", "copy-item", "native">>

\* names a configuration can list: the four methods and one that is none
MethodNames == Range(defaultMethods) \cup {"rsync"}

\* the command exec.LookPath is asked for
Executable(command) == IF command = "copy-item" THEN "powershell" ELSE command

Executables == {"robocopy", "xcopy", "powershell"}

\* a completion that adds nothing
ensureAllCopyMethodsAsGiven(priority) == priority

ensureAllCopyMethods(priority) ==
    LET Missing(m) == m \notin Range(priority)
    IN  priority \o SelectSeq(defaultMethods, Missing)

isCommandAvailable(command, found) ==
    IF command \in {"robocopy", "xcopy", "copy-item"} THEN Executable(command) \in found
    ELSE command = "native"

RECURSIVE tryCopyLoop(_, _, _, _, _, _, _)
\* the loop from entry i on: the methods attempted before it and the number
\* of available ones are carried along
tryCopyLoop(copyMethods, i, found, works, dryRun, attempted, availableCount) ==
    IF i > Len(copyMethods)
    THEN [err |-> IF availableCount = 0 THEN "no-method" ELSE "all-failed",
          attempted |-> attempted]
    ELSE LET method == copyMethods[i]
         IN  IF ~isCommandAvailable(method, found)
             THEN tryCopyLoop(copyMethods, i + 1, found, works, dryRun,
                              attempted, availableCount)
             ELSE IF dryRun \/ method \in works
             THEN [err |-> "nil", attempted |-> Append(attempted, method)]
             ELSE tryCopyLoop(copyMethods, i + 1, found, works, dryRun,
                              Append(attempted, method), availableCount + 1)

tryCopy(priority, found, works, dryRun) ==
    tryCopyLoop(ensureAllCopyMethods(priority), 1, found, works, dryRun, <<>>, 0)

RECURSIVE SeqsUpTo(_, _)
\* the sequences over S of length at most n
SeqsUpTo(S, n) ==
    IF n = 0 THEN {<<>>}
    ELSE LET shorter == SeqsUpTo(S, n - 1)
         IN  shorter \cup {Append(q, x) : q \in shorter, x \in S}

\* one call from the state before any call
CallTryCopy ==
    /\ call = NoCall
    /\ \E priority \in SeqsUpTo(MethodNames, MaxPriority),
          found \in SUBSET Executables,
          works \in SUBSET Range(defaultMethods) :
          call' = [op |-> "tryCopy", priority |-> priority, found |-> found,
                   works |-> works, dryRun |-> cfg.DryRun,
                   copyMethods |-> ensureAllCopyMethods(priority),
                   ret |-> tryCopy(priority, found, works, cfg.DryRun)]
    /\ UNCHANGED <<clock, cfg, ledgerFile, pc, now, lvl, rec, ret, execs, lost, runs>>

-----------------------------------------------------------------------------
(* The extension filter of the copy paths.  A path is a sequence of        *)
(* characters: two letters, one of them in both cases, the dot and the     *)
(* separator.                                                              *)

Chars == {"a", "A", "b", ".", "/"}

\* strings.ToLower
ToLower(str) == [k \in 1..Len(str) |-> IF str[k] = "A" THEN "a" ELSE str[k]]

\* strings.HasSuffix
HasSuffix(str, suffix) ==
    /\ Len(suffix) <= Len(str)
    /\ SubSeq(str, Len(str) - Len(suffix) + 1, Len(str)) = suffix

\* filepath.Base of a path that does not end in a separator
Base(path) ==
    LET seps == {k \in 1..Len(path) : path[k] = "/"}
        last == IF seps = {} THEN 0 ELSE CHOOSE k \in seps : \A j \in seps : j <= k
    IN  SubSeq(path, last + 1, Len(path))

\* filepath.Ext: from the last dot of the last element on, or empty
Ext(path) ==
    LET base == Base(path)
        dots == {k \in 1..Len(base) : base[k] = "."}
    IN  IF dots = {} THEN <<>>
        ELSE SubSeq(base, CHOOSE k \in dots : \A j \in dots : j <= k, Len(base))

\* cleanupUnwantedFiles keeps a file of the destination that the source has
cleanupKeeps(path, extensions) ==
    \/ extensions = {}
    \/ \E allowedExt \in extensions :
          HasSuffix(ToLower(Base(path)), ToLower(allowedExt))

\* the walk of the xcopy branch collects the file (with an empty list the
\* branch copies the whole tree)
xcopySelects(path, extensions) ==
    \/ extensions = {}
    \/ \E allowedExt \in extensions : ToLower(allowedExt) = ToLower(Ext(path))

\* the walk of the native branch copies the file
nativeSelects(path, extensions) ==
    ~(/\ extensions # {}
      /\ ~\E allowedExt \in extensions : ToLower(allowedExt) = ToLower(Ext(path)))

\* the paths of files a walk can visit
FilePaths == {q \in SeqsUpTo(Chars, MaxPath) : q # <<>> /\ q[Len(q)] # "/"}

\* entries of the extensions list: one-dot extensions in both cases and a
\* two-dot extension
ExtensionChoices == {<<".", "a">>, <<".", "A">>, <<".", "b">>, <<".", "a", ".", "b">>}

\* one file against one extensions list
CallFilter ==
    /\ call = NoCall
    /\ \E path \in FilePaths, extensions \in SUBSET ExtensionChoices :
          call' = [op |-> "filter", path |-> path, extensions |-> extensions,
                   cleanup |-> cleanupKeeps(path, extensions),
                   xcopy |-> xcopySelects(path, extensions),
                   native |-> nativeSelects(path, extensions)]
    /\ UNCHANGED <<clock, cfg, ledgerFile, pc, now, lvl, rec, ret, execs, lost, runs>>

InitFilter ==
    /\ InitSched
    /\ InitNoBackup
    /\ cfg = Config(FALSE, LedgerPath)
    /\ ledgerFile = MissingFile

NextFilter == CallFilter /\ UNCHANGED bakVars

-----------------------------------------------------------------------------
(* cleanupUnwantedFiles: the counters of the walk.  An entry the walk      *)
(* visits is a directory or a file, has a counterpart in the source or     *)
(* not, passes the extension check or not, and the walk or the removal may *)
(* fail on it.                                                             *)

WalkEntries ==
    [isDir : BOOLEAN, inSource : BOOLEAN, matched : BOOLEAN,
     walkErr : BOOLEAN, removeErr : BOOLEAN]

\* what the callback adds to the counters for one entry
RECURSIVE cleanupCounts(_, _, _)
cleanupCounts(entries, i, n) ==
    IF i > Len(entries) THEN n
    ELSE LET e == entries[i]
             shouldDelete == ~e.inSource \/ ~e.matched
             m == IF e.walkErr THEN [n EXCEPT !.errors = @ + 1]
                  ELSE IF e.isDir
                  THEN IF e.inSource THEN n
                       ELSE IF e.removeErr THEN [n EXCEPT !.errors = @ + 1]
                       ELSE [n EXCEPT !.deletedDirs = @ + 1]
                  ELSE IF ~shouldDelete THEN [n EXCEPT !.skippedFiles = @ + 1]
                  ELSE IF e.removeErr THEN [n EXCEPT !.errors = @ + 1]
                  ELSE [n EXCEPT !.deletedFiles = @ + 1]
         IN  cleanupCounts(entries, i + 1, m)

\* the value returned: the callback never returns an error, so the walk
\* returns none and the last line decides
cleanupUnwantedFiles(entries) ==
    LET n == cleanupCounts(entries, 1,
                 [deletedFiles |-> 0, deletedDirs |-> 0, skippedFiles |-> 0, errors |-> 0])
    IN  n.errors < n.deletedFiles + n.deletedDirs + n.skippedFiles

\* stage 1 (robocopy, exit code at most 3) and stage 2 (the cleanup)
executeRobocopyWithExtensions(stage1Success, entries) ==
    IF ~stage1Success THEN FALSE
    ELSE stage1Success /\ cleanupUnwantedFiles(entries)

\* one two-stage run over one destination tree
CallCleanup ==
    /\ call = NoCall
    /\ \E entries \in SeqsUpTo(WalkEntries, MaxEntries), stage1Success \in BOOLEAN :
          call' = [op |-> "cleanup", entries |-> entries, stage1 |-> stage1Success,
                   cleanup |-> cleanupUnwantedFiles(entries),
                   ret |-> executeRobocopyWithExtensions(stage1Success, entries)]
    /\ UNCHANGED <<clock, cfg, ledgerFile, pc, now, lvl, rec, ret, execs, lost, runs>>

NextCleanup == CallCleanup /\ UNCHANGED bakVars

InitCopy ==
    /\ InitSched
    /\ InitNoBackup
    /\ cfg \in {Config(dry, LedgerPath) : dry \in BOOLEAN}
    /\ ledgerFile = MissingFile

NextCopy == CallTryCopy /\ UNCHANGED bakVars

vars == <<schedVars, bakVars>>

SpecOneShot == InitOneShot /\ [][NextOneShot]_vars

SpecDaemon == InitDaemon /\ [][NextDaemon]_vars

SpecCrash == InitCrash /\ [][NextCrash]_vars

SpecRace == InitRace /\ [][NextRace]_vars

SpecClassify == InitClassify /\ [][NextClassify]_vars

SpecLedger == InitLedger /\ [][NextLedger]_vars

SpecRoundTrip == InitRoundTrip /\ [][NextRoundTrip]_vars

SpecFailClosed == InitFailClosed /\ [][NextFailClosed]_vars

\* runBackup processes started side by side with enable_lock set, in an
\* installation whose 30m tier holds the artifacts of MaxPre cycles; two
\* invocations are started
InitLock ==
    /\ InitSched
    /\ ledgerFile = MissingFile
    /\ impl \in Implementations
    /\ cfg = BackupConfig(FALSE, LedgerPath, TRUE, [l \in Levels |-> 1])
    /\ dirs = Placed([n \in PreNames |-> {"30m"}])
    /\ lastID = MaxPre
    /\ cyc = [p \in Procs |-> NewCycle(dirs)]
    /\ lockFile = FALSE
    /\ bpc = [p \in Procs |-> "idle"]
    /\ bi = [p \in Procs |-> 1]
    /\ fname = [p \in Procs |-> <<>>]
    /\ held = [p \in Procs |-> FALSE]
    /\ bret = [p \in Procs |-> "nil"]
    /\ ev = NoEvent
    /\ faulted = FALSE
    /\ cycles = MaxCycles - 2

SpecLock == InitLock /\ [][NextLock]_vars

SpecBackup == InitBackup /\ [][NextBackup]_vars

SpecTiers == InitTiers /\ [][NextBackup]_vars

SpecZeroKeep == InitZeroKeep /\ [][NextBackup]_vars

SpecTwin == InitTwin /\ [][NextTwin]_vars

SpecChain == InitChain /\ [][NextChain]_vars

SpecNames == InitNames /\ [][NextNames]_vars

SpecCopy == InitCopy /\ [][NextCopy]_vars

SpecFilter == InitFilter /\ [][NextFilter]_vars

SpecCleanup == InitFilter /\ [][NextCleanup]_vars

-----------------------------------------------------------------------------
(* Properties of the classifier, the ledger and the drivers.               *)

\* C1: for every hour and minute (seconds and date ignored)
\* determineBestBackupLevel returns at most one level, the first rule that
\* matches from coarsest to finest: 1d iff 00:00; 12h iff 12:00; 6h iff 06:00
\* or 18:00; 3h iff 03:00, 09:00, 15:00 or 21:00; 30m iff minute 30, or minute
\* 0 of an hour that is not a multiple of 3; otherwise (false, no level).
C1_ClassifierExclusive ==
    call.op = "classify" =>
        LET h == call.t.hour
            m == call.t.min
            r == call.ret
        IN  /\ (r = Verdict(TRUE, "1d")) <=> (h = 0 /\ m = 0)
            /\ (r = Verdict(TRUE, "12h")) <=> (h = 12 /\ m = 0)
            /\ (r = Verdict(TRUE, "6h")) <=> (h \in {6, 18} /\ m = 0)
            /\ (r = Verdict(TRUE, "3h")) <=> (h \in {3, 9, 15, 21} /\ m = 0)
            /\ (r = Verdict(TRUE, "30m")) <=> (m = 30 \/ (m = 0 /\ h % 3 # 0))
            /\ (r = Verdict(FALSE, NoLevel)) <=>
                  ~(m = 30 \/ m = 0)
            /\ r \in {Verdict(TRUE, l) : l \in Levels} \cup {Verdict(FALSE, NoLevel)}

\* midnight has been classified: every rule matches, 1d is returned
C1_Witness ==
    /\ call.op = "classify"
    /\ call.t.hour = 0 /\ call.t.min = 0 /\ call.t.sec = 59 /\ call.t.day = 2
    /\ call.ret = Verdict(TRUE, "1d")

SameCalendarMinute(t, u) == t.day = u.day /\ t.hour = u.hour /\ t.min = u.min

\* C2: with a configured ledger, once recordLastExecution has written
\* (level, t1), shouldExecuteBackup(t2) for a t2 that classifies to that level
\* returns (false, no level) exactly when t2 and t1 are in the same calendar
\* minute and (true, level) when they are not, also at the same time of day
\* of another day; with no entry for the level it returns (true, level).
C2_DuplicateSuppression ==
    /\ (/\ call.op = "record"
        /\ cfg.LastExecutionFile # ""
        /\ call.ret = "nil") =>
           /\ ledgerFile.state = "ok"
           /\ call.level \in DOMAIN ledgerFile.data
           /\ Equal(DecodeTime(ledgerFile.data[call.level]), call.t)
    /\ (/\ call.op = "should"
        /\ cfg.LastExecutionFile # ""
        /\ ledgerFile.state # "corrupt"
        /\ determineBestBackupLevel(call.t).ok) =>
           LET level == determineBestBackupLevel(call.t).level
           IN  IF level \in DOMAIN ledgerFile.data
               THEN LET t1 == DecodeTime(ledgerFile.data[level])
                    IN  IF SameCalendarMinute(call.t, t1)
                        THEN call.ret = Decision(FALSE, NoLevel, "nil")
                        ELSE call.ret = Decision(TRUE, level, "nil")
               ELSE call.ret = Decision(TRUE, level, "nil")

\* a check in the minute already recorded, at another second, was refused
C2_Witness ==
    /\ call.op = "should"
    /\ cfg.LastExecutionFile # ""
    /\ call.ret = Decision(FALSE, NoLevel, "nil")
    /\ "30m" \in DOMAIN ledgerFile.data
    /\ ledgerFile.data["30m"] = <<1, 9, 30, 0>>
    /\ call.t = Time(1, 9, 30, 45, TRUE)

\* C3 as stated: over non-overlapping one-shot invocations with a configured
\* ledger and a clock that never goes back, no level is executed more than
\* once within one calendar minute.
C3_AtMostOncePerMinute ==
    \A k \in DOMAIN execs : execs[k] <= 1

\* C3 as amended: a level is executed more than once within one calendar
\* minute only if recordLastExecution returned an error for an execution of
\* that level in that minute.
C3_AtMostOnceUnlessRecordFailed ==
    \A k \in DOMAIN execs : execs[k] > 1 => k \in lost

\* a second invocation within the minute of a recorded execution, at another
\* second, has returned without executing
C3_Witness ==
    /\ runs >= 2
    /\ pc["p1"] = "idle"
    /\ ret["p1"] = "nil"
    /\ lvl["p1"] = NoLevel
    /\ lost = {}
    /\ \E k \in DOMAIN execs :
          /\ execs[k] = 1
          /\ k[2] = MinuteOf(now["p1"])
          /\ k[1] = determineBestBackupLevel(now["p1"]).level
          /\ k[1] \in DOMAIN ledgerFile.data
          /\ ledgerFile.data[k[1]][4] # now["p1"].sec

\* C4: in daemon mode a level is executed at most once within one matching
\* minute.
C4_DaemonAtMostOncePerMinute ==
    \A p \in SeqProcs :
        pc[p] \in {"loop", "sleep"} => \A k \in DOMAIN execs : execs[k] <= 1

-----------------------------------------------------------------------------
(* What a cycle looked like, read from a promote, rotate or save step      *)

\* the artifacts of a tier, oldest first
Artifacts(d, level) == VhdxNames(d[level].entries)

Count(d, level) == Len(Artifacts(d, level))

\* entries of a tier that are not artifacts
Others(d, level) == {e \in d[level].entries : ~HasVhdxSuffix(e)}

SameEntries(d, e) == \A l \in Levels : d[l].entries = e[l].entries

\* the keep largest names of a sorted sequence
Newest(names, keep) == SubSeq(names, Len(names) - keep + 1, Len(names))

\* every artifact name is in at most one tier directory
UniqueNames(d) ==
    \A l1, l2 \in Levels :
        l1 # l2 => {e \in d[l1].entries \cap d[l2].entries : HasVhdxSuffix(e)} = {}

\* a complete cycle has just ended: the save step returned nil
CycleEnded == ev.op = "save" /\ ev.err = "nil"

\* C5: within one runBackup cycle promotion has been attempted for every
\* adjacent pair of the chain before rotateBackupsWithPromotion runs for (and
\* so before it deletes from) any tier, and the new artifact is saved into 30m
\* only after the promotion of every pair and the rotation of every tier.
C5_PromoteThenRotateThenSave ==
    \A p \in Procs :
        /\ cyc[p].rotated # {} => cyc[p].attempted = Pairs
        /\ cyc[p].deleted # {} => cyc[p].attempted = Pairs
        /\ cyc[p].saved => cyc[p].attempted = Pairs /\ cyc[p].rotated = Range(levels)
        /\ bpc[p] = "rotate" => cyc[p].attempted = Pairs /\ ~cyc[p].saved
        /\ bpc[p] = "promote" => cyc[p].rotated = {} /\ ~cyc[p].saved

\* a cycle that was complete, in which rotation deleted an artifact and the
\* new artifact reached 30m
C5_Witness ==
    \E p \in Procs :
        /\ CycleEnded /\ ev.proc = p /\ ~cfg.DryRun
        /\ cyc[p].deleted # {}
        /\ fname[p] \in dirs["30m"].entries

\* C6: for each adjacent pair (current, next), promoteBackup moves exactly one
\* artifact, the smallest .vhdx name of current, into next when current holds
\* keepCount(current) artifacts or more, and moves nothing when it holds
\* fewer.  Stated for the iterations where nothing fails, dry_run is false
\* and next does not hold the name already.
C6_PromoteAtOrOverKeep ==
    (/\ ev.op = "promote"
     /\ ~cfg.DryRun
     /\ ev.fault = "none"
     /\ ev.before[levels[ev.i]].exists) =>
        LET cur == levels[ev.i]
            next == levels[ev.i + 1]
            names == Artifacts(ev.before, cur)
            keep == cfg.KeepVersions[cur]
        IN  IF Len(names) >= keep
            THEN (names[1] \notin ev.before[next].entries
                    => SameEntries(dirs, Rename(ev.before, cur, next, names[1])))
            ELSE SameEntries(dirs, ev.before)

\* C7 as stated: rotateBackupsWithPromotion with dry_run false leaves exactly
\* the keepCount largest names when the tier holds N > keepCount artifacts,
\* deletes nothing when N <= keepCount, and never counts or deletes an entry
\* without the .vhdx suffix.
C7_RotationExact ==
    (ev.op = "rotate" /\ ~cfg.DryRun) =>
        LET names == Artifacts(ev.before, ev.level)
            keep == cfg.KeepVersions[ev.level]
        IN  /\ Len(names) > keep => Artifacts(dirs, ev.level) = Newest(names, keep)
            /\ Len(names) <= keep => SameEntries(dirs, ev.before)
            /\ Others(dirs, ev.level) = Others(ev.before, ev.level)

\* C7 amended: the exact result is reached when the directory can be created
\* and listed and every os.Remove succeeds; whatever fails, only names among
\* the N - keepCount smallest are removed, nothing is removed when
\* N <= keepCount, no other tier changes, and entries without the .vhdx suffix
\* are never counted or deleted.
C7_RotationExactUnlessIOFails ==
    (ev.op = "rotate" /\ ~cfg.DryRun) =>
        LET names == Artifacts(ev.before, ev.level)
            keep == cfg.KeepVersions[ev.level]
            removed == ev.before[ev.level].entries \ dirs[ev.level].entries
        IN  /\ (Len(names) > keep /\ ev.fault = "none" /\ ev.failing = {})
                    => Artifacts(dirs, ev.level) = Newest(names, keep)
            /\ Len(names) > keep
                    => removed \subseteq Range(Prefix(names, Len(names) - keep))
            /\ Len(names) <= keep => SameEntries(dirs, ev.before)
            /\ Others(dirs, ev.level) = Others(ev.before, ev.level)
            /\ dirs[ev.level].entries \subseteq ev.before[ev.level].entries
            /\ \A l \in Levels \ {ev.level} : dirs[l].entries = ev.before[l].entries

\* a rotation without failure of a tier over its keepCount that also holds an
\* entry without the suffix: the oldest artifacts are gone, the entry stays
C7_Witness ==
    /\ ev.op = "rotate" /\ ~cfg.DryRun
    /\ ev.fault = "none" /\ ev.failing = {}
    /\ Count(ev.before, ev.level) > cfg.KeepVersions[ev.level]
    /\ Count(dirs, ev.level) = cfg.KeepVersions[ev.level]
    /\ Others(ev.before, ev.level) # {}
    /\ Others(dirs, ev.level) = Others(ev.before, ev.level)

\* C8: at the end of every complete non-dry-run runBackup cycle every tier
\* holds at most keepCount artifacts, for any number of consecutive cycles
\* starting from empty tiers.  Stated for the runs in which no file operation
\* has failed.
C8_TierWithinKeep ==
    (CycleEnded /\ ~cfg.DryRun /\ ~faulted) =>
        \A l \in Levels : Count(dirs, l) <= cfg.KeepVersions[l]

\* C9: when a tier holds exactly keepCount artifacts at the start of a cycle,
\* after the full cycle its oldest artifact resides in the next coarser tier
\* and has not been deleted by rotation in that cycle.  Stated for the cycles
\* in which no file operation has failed.
C9_OldestMovesUpAtKeep ==
    \A p \in Procs :
        (CycleEnded /\ ev.proc = p /\ ~cfg.DryRun /\ ~faulted) =>
            \A i \in Pairs :
                LET names == Artifacts(cyc[p].start, levels[i])
                IN  Len(names) = cfg.KeepVersions[levels[i]] =>
                        /\ names[1] \in dirs[levels[i + 1]].entries
                        /\ names[1] \notin cyc[p].deleted

\* C10: if every artifact name was in at most one tier directory when the
\* cycle started, it is in at most one after every promote, rotate and save
\* step of the cycle, whichever of them fails and also when the destination
\* is taken to hold the name; and after an iteration of promoteBackup the
\* selected artifact is never in both the source and the destination unless
\* the destination held it before.
C10_OneTierPerName ==
    /\ \A p \in Procs : UniqueNames(cyc[p].start) => UniqueNames(dirs)
    /\ ev.op = "promote" =>
          \/ ev.old = <<>>
          \/ ev.old \in ev.before[levels[ev.i + 1]].entries
          \/ ~(/\ ev.old \in dirs[levels[ev.i]].entries
               /\ ev.old \in dirs[levels[ev.i + 1]].entries)

\* names that started in one tier each; an artifact was moved up by the pair
\* before, and for this pair the destination was taken to hold the name, so
\* the source was removed
C10_Witness ==
    \E p \in Procs :
        /\ UniqueNames(cyc[p].start)
        /\ ev.op = "promote" /\ ev.proc = p /\ ev.i > 1
        /\ ev.outcome = "source-removed"
        /\ \E n \in cyc[p].start[levels[ev.i - 1]].entries :
              HasVhdxSuffix(n) /\ n \in ev.before[levels[ev.i]].entries
        /\ UniqueNames(dirs)

-----------------------------------------------------------------------------
(* The ledger switched off, unreadable, and left alone                     *)

\* C11: when last_execution_file is empty, shouldExecuteBackup at a matching
\* timestamp returns (true, level) with no error whatever calls were made
\* before, and recordLastExecution returns no error and writes nothing.
C11_DisabledLedger ==
    cfg.LastExecutionFile = "" =>
        /\ (call.op = "should" /\ determineBestBackupLevel(call.t).ok) =>
              call.ret = Decision(TRUE, determineBestBackupLevel(call.t).level, "nil")
        /\ call.op = "record" => call.ret = "nil" /\ ledgerFile = call.before
        /\ ledgerFile \in {MissingFile, CorruptFile, JsonFile(EmptyMap)}

\* with the ledger switched off and calls made before, a check at a matching
\* time was allowed
C11_Witness ==
    /\ cfg.LastExecutionFile = ""
    /\ runs > 1
    /\ call.op = "should"
    /\ call.ret.execute
    /\ call.ret.level = "30m"

\* C12: when the ledger file exists but cannot be parsed, shouldExecuteBackup
\* at a matching timestamp returns an error with execute = false,
\* runOneShotMode returns that error and runs no backup, recordLastExecution
\* returns the error too, and none of them changes the file.
C12_CorruptLedgerFailsClosed ==
    (/\ call.op \in {"should", "record", "oneshot"}
     /\ cfg.LastExecutionFile # ""
     /\ call.before.state = "corrupt") =>
        /\ ledgerFile = call.before
        /\ (call.op = "should" /\ determineBestBackupLevel(call.t).ok) =>
              call.ret = Decision(FALSE, NoLevel, "other")
        /\ call.op = "record" => call.ret = "other"
        /\ (call.op = "oneshot" /\ determineBestBackupLevel(call.t).ok) =>
              call.ret.err = "other" /\ ~call.ret.ran

\* the file was unparsable and earlier calls have left it so: the invocation
\* at a matching time returned the error without running a backup
C12_Witness ==
    /\ runs > 1
    /\ call.op = "oneshot"
    /\ call.before = CorruptFile
    /\ determineBestBackupLevel(call.t).ok
    /\ call.ret.err = "other"
    /\ ~call.ret.ran
    /\ ledgerFile = CorruptFile

\* C13: shouldExecuteBackup never changes the ledger: for every ledger file
\* (absent, unparsable, with or without an entry for the level) and every
\* timestamp, the file after the call equals the file before it, whatever
\* verdict is returned.
C13_DecisionLeavesLedger ==
    call.op = "should" => ledgerFile = call.before

\* a check was allowed for a level the ledger has no entry of, and the ledger
\* still holds just the entry of the other level
C13_Witness ==
    /\ call.op = "should"
    /\ cfg.LastExecutionFile # ""
    /\ call.ret.execute
    /\ call.before.state = "ok"
    /\ DOMAIN call.before.data # {}
    /\ call.ret.level \notin DOMAIN call.before.data
    /\ ledgerFile = call.before

-----------------------------------------------------------------------------
(* The ledger after an execution                                           *)

\* the ledger holds, for the level, the instant t
EntryIs(file, level, t) ==
    /\ file.state = "ok"
    /\ level \in DOMAIN file.data
    /\ Equal(DecodeTime(file.data[level]), t)

\* C14: after every backup the daemon loop executes or dry-run-simulates at
\* level L with timestamp t, as after one of the one-shot driver, the ledger
\* entry for L equals t.
C14_LedgerFollowsExecution ==
    \A p \in SeqProcs :
        (pc[p] = "sleep" /\ determineBestBackupLevel(now[p]).ok /\ ret[p] = "nil") =>
            EntryIs(ledgerFile, lvl[p], now[p])

-----------------------------------------------------------------------------
(* Processes side by side                                                  *)

\* C16: recordLastExecution takes no lock, so processes interleave between
\* its load and its save.  Every entry of the ledger is the level and the
\* time of an execution, and a process about to save holds the record it
\* loaded with its own entry put in; the record it writes replaces whatever
\* the other process saved in between.  Hence the interleavings of the
\* witness: an entry recorded without error is missing afterwards, and two
\* invocations of one minute have both executed.
C16_UnlockedLedger ==
    /\ ledgerFile.state = "ok" =>
          \A l \in DOMAIN ledgerFile.data :
             <<l, MinuteOf(DecodeTime(ledgerFile.data[l]))>> \in DOMAIN execs
    /\ \A p \in Procs :
          pc[p] = "save" =>
             /\ lvl[p] \in DOMAIN rec[p]
             /\ rec[p][lvl[p]] = now[p]

\* all invocations have returned nil and none failed to record; the last
\* invocations of the two processes executed the same level in the same
\* minute, and a level that was executed and recorded has no entry
C16_Witness ==
    /\ NoneRunning
    /\ \A p \in Procs : ret[p] = "nil"
    /\ lost = {}
    /\ ~cfg.DryRun
    /\ ledgerFile.state = "ok"
    /\ lvl["p1"] = lvl["p2"]
    /\ MinuteOf(now["p1"]) = MinuteOf(now["p2"])
    /\ CountOf(execs, <<lvl["p1"], MinuteOf(now["p1"])>>) = 2
    /\ \E k \in DOMAIN execs : k[1] \notin DOMAIN ledgerFile.data

\* the section of runBackup after the lock: sequence number, copy,
\* promotion, rotation, save
InSection(p) == bpc[p] \in {"id", "copy", "promote", "rotate", "save"}

\* C17: with enable_lock true and dry_run false, in every interleaving of
\* runBackup processes started side by side at most one process is past
\* acquireFileLock at any time, and it is the one that holds the lock file.
C17_LockExcludes ==
    (cfg.EnableLock /\ ~cfg.DryRun) =>
        /\ Cardinality({p \in Procs : InSection(p)}) <= 1
        /\ \A p \in Procs : InSection(p) => (held[p] /\ lockFile)

\* one process is in the section while the other, whose os.Stat found no
\* lock file, is about to open it
C17_Witness ==
    /\ cfg.EnableLock /\ ~cfg.DryRun
    /\ InSection("p1")
    /\ bpc["p2"] = "open"

C19_LockOnlyWhileHeld == lockFile => \E p \in Procs : held[p]

\* C19: every return of a runBackup that acquired the lock (after the save,
\* on an error of getNextID, of the mount, of the copy or of the save, or on
\* a panic) runs releaseFileLock, and the lock file is gone after the return
\* unless its os.Remove failed.
C19_ReleasedUnlessRemoveFails ==
    [][\A p \in Procs :
          (held[p] /\ InSection(p) /\ bpc'[p] = "idle") =>
              /\ ~held'[p]
              /\ ev'.proc = p
              /\ lockFile' = (ev'.release = "remove")]_vars

\* a process returned an error after it had acquired the lock, and the
\* other process has acquired the lock after that
C19_Witness ==
    /\ bret["p1"] = "other"
    /\ bpc["p1"] = "idle"
    /\ ~held["p1"]
    /\ held["p2"]
    /\ InSection("p2")
    /\ lockFile

\* C20: while dry_run is true no step of a runBackup cycle performs a file
\* operation: the tier directories (whether they exist, and their entries),
\* the sequence number file and the lock file are after every step what
\* they were before it.  Stated for steps in which no operation has failed.
C20_DryRunTouchesNothing ==
    [][(cfg.DryRun /\ ~faulted') => UNCHANGED <<dirs, lastID, lockFile>>]_vars

\* C21: in one-shot mode with dry_run false, the backup step of an invocation
\* that decided to execute level L leaves a new artifact in the directory of
\* L, which then holds at most keep_versions[L] artifacts, before the
\* execution is recorded in the ledger.
C21_OneShotRunSavesArtifact ==
    [][\A p \in Procs :
          (pc[p] = "run" /\ pc'[p] = "record" /\ ~cfg.DryRun) =>
              /\ \E n \in Range(Artifacts(dirs', lvl[p])) :
                    n \notin dirs[lvl[p]].entries
              /\ Count(dirs', lvl[p]) <= cfg.KeepVersions[lvl[p]]]_vars

\* a matching minute before the present reading of the clock for which no
\* backup was executed
MissedMinute ==
    \E t \in TimeSet :
        /\ Abs(t) < Abs(clock)
        /\ MinuteOf(t) # MinuteOf(clock)
        /\ determineBestBackupLevel(t).ok
        /\ <<determineBestBackupLevel(t).level, MinuteOf(t)>> \notin DOMAIN execs

\* C22: when a matching minute has passed while no process was running, the
\* next start of the program executes the missed backup even though the time
\* of the start matches no schedule rule.
C22_CatchUpAtStart ==
    [][\A p \in Procs :
          (/\ NoneRunning
           /\ runs' = runs + 1
           /\ now'[p] = Wall(clock)
           /\ ~determineBestBackupLevel(Wall(clock)).ok
           /\ MissedMinute) => pc'[p] = "run"]_vars

\* the sequence numbers of the artifacts kept in a tier, and in any tier
TierIDs(level) == {id \in 1..lastID : ArtifactName(id) \in dirs[level].entries}

RetainedIDs == UNION {TierIDs(l) : l \in Levels}

Max(S) == CHOOSE x \in S : \A y \in S : y <= x

Min(S) == CHOOSE x \in S : \A y \in S : x <= y

\* the least distance in creation order between two artifacts of a tier
MinGap(S) == Min({b - a : <<a, b>> \in {q \in S \X S : q[1] < q[2]}})

\* C23: after a cycle of a run that started from empty tiers and saved one
\* artifact per cycle, once a tier above 30m holds an artifact, the artifacts
\* of a coarser tier are further apart in creation order than those of the
\* next finer tier, and the history kept across all tiers spans more cycles
\* than the number of artifacts kept.
C23_PyramidOfDensity ==
    (/\ CycleEnded /\ ~cfg.DryRun /\ ~faulted
     /\ \E l \in Levels \ {"30m"} : TierIDs(l) # {}) =>
        /\ \A i \in Pairs :
              (Cardinality(TierIDs(levels[i])) >= 2
                  /\ Cardinality(TierIDs(levels[i + 1])) >= 2) =>
                  MinGap(TierIDs(levels[i + 1])) > MinGap(TierIDs(levels[i]))
        /\ Max(RetainedIDs) - Min(RetainedIDs) + 1 > Cardinality(RetainedIDs)

\* C24: when a one-shot invocation dies at any point of its decide, run,
\* record sequence and the program is invoked again within the same matching
\* minute, the backup of that level is not executed a second time (stated for
\* executions whose recording did not return an error).
C24_NoSecondRunAfterCrash ==
    \A k \in DOMAIN execs : k \notin lost => execs[k] <= 1

EntriesOf(file) == IF file.state = "ok" THEN file.data ELSE EmptyMap

\* C27 as stated: after recordLastExecution(level, t) with a configured
\* ledger the entry of level equals t and the entry of every other level is
\* what it was before; an absent file is created holding that one entry.
C27_RecordChangesOneEntry ==
    (call.op = "record" /\ cfg.LastExecutionFile # "") =>
        /\ ledgerFile.state = "ok"
        /\ DOMAIN ledgerFile.data = DOMAIN EntriesOf(call.before) \cup {call.level}
        /\ Equal(DecodeTime(ledgerFile.data[call.level]), call.t)
        /\ \A l \in DOMAIN ledgerFile.data \ {call.level} :
              ledgerFile.data[l] = call.before.data[l]

\* C27 for the calls that return nil; a call that returns an error leaves
\* the file as it was, or truncated when the write failed half way.
C27_RecordChangesOneEntryOnSuccess ==
    (call.op = "record" /\ cfg.LastExecutionFile # "") =>
        IF call.ret = "nil"
        THEN /\ call.before.state # "corrupt"
             /\ ledgerFile.state = "ok"
             /\ DOMAIN ledgerFile.data = DOMAIN EntriesOf(call.before) \cup {call.level}
             /\ Equal(DecodeTime(ledgerFile.data[call.level]), call.t)
             /\ \A l \in DOMAIN ledgerFile.data \ {call.level} :
                   ledgerFile.data[l] = call.before.data[l]
        ELSE ledgerFile \in {call.before, CorruptFile}

\* a second level has been recorded in a ledger that held an entry of
\* another level, which is still there
C27_Witness ==
    /\ call.op = "record"
    /\ call.ret = "nil"
    /\ call.before.state = "ok"
    /\ call.level = "3h"
    /\ DOMAIN call.before.data = {"30m"}
    /\ DOMAIN ledgerFile.data = {"30m", "3h"}
    /\ ledgerFile.data["30m"] = call.before.data["30m"]

\* C28: at every timestamp that matches no schedule rule shouldExecuteBackup
\* returns (false, no level) with no error and does not read the ledger,
\* whether the ledger file is absent, valid or unparsable.
C28_NoRuleNoLedgerRead ==
    (call.op = "should" /\ ~determineBestBackupLevel(call.t).ok) =>
        /\ call.ret = Decision(FALSE, NoLevel, "nil")
        /\ ~call.reads
        /\ ledgerFile = call.before

\* the call at 09:15 with an unparsable ledger configured has returned
\* without an error
C28_Witness ==
    /\ call.op = "should"
    /\ cfg.LastExecutionFile # ""
    /\ call.before = CorruptFile
    /\ call.t.hour = 9 /\ call.t.min = 15
    /\ ~call.ret.execute
    /\ call.ret.err = "nil"

\* C29: under one-shot invocations that run one after the other with a clock
\* that never goes back, the ledger holds at most one entry per level (its
\* keys are levels), and from one step to the next, so from one invocation to
\* the next, a level that has an entry keeps one and the entry does not
\* decrease, as long as the file can be parsed.
C29_EntriesNeverDecrease ==
    [][(ledgerFile.state = "ok" /\ ledgerFile'.state = "ok") =>
          /\ DOMAIN ledgerFile'.data \subseteq Levels
          /\ \A l \in DOMAIN ledgerFile.data :
                /\ l \in DOMAIN ledgerFile'.data
                /\ Abs(DecodeTime(ledgerFile'.data[l])) >= Abs(DecodeTime(ledgerFile.data[l]))]_vars

\* the level of an entry found at the start has been executed and recorded
\* again on a later day, and the entry is the later time
C29_Witness ==
    /\ NoneRunning
    /\ lost = {}
    /\ ledgerFile.state = "ok"
    /\ DOMAIN ledgerFile.data = {"30m", "1d"}
    /\ ledgerFile.data["30m"] = EncodeTime(Time(2, 9, 30, 45, FALSE))
    /\ ledgerFile.data["1d"] = EncodeTime(Time(1, 0, 0, 0, FALSE))

\* an iteration of promoteBackup has selected a name that the directory of
\* the next tier held already
SelectedNameInNext ==
    /\ ev.op = "promote"
    /\ ~cfg.DryRun
    /\ ev.old # <<>>
    /\ ev.old \in ev.before[levels[ev.i + 1]].entries

\* C30 as stated: when promoteBackup selects an artifact whose name exists in
\* the directory of the next tier, the source artifact is deleted, the one in
\* the destination is left as it is and the number of artifacts of the
\* destination does not change.
C30_DuplicateSourceDeleted ==
    SelectedNameInNext =>
        /\ ev.old \notin dirs[levels[ev.i]].entries
        /\ dirs[levels[ev.i + 1]].entries = ev.before[levels[ev.i + 1]].entries
        /\ Count(dirs, levels[ev.i + 1]) = Count(ev.before, levels[ev.i + 1])

\* C30 with the failure of os.Remove, whose error is dropped: the source
\* artifact is deleted unless os.Remove fails, and then it stays; the
\* destination is left as it is in both cases.
C30_DuplicateSourceDeletedUnlessRemoveFails ==
    SelectedNameInNext =>
        /\ (ev.old \in dirs[levels[ev.i]].entries) = (ev.fault = "remove")
        /\ dirs[levels[ev.i]].entries \ {ev.old} = ev.before[levels[ev.i]].entries \ {ev.old}
        /\ dirs[levels[ev.i + 1]].entries = ev.before[levels[ev.i + 1]].entries
        /\ Count(dirs, levels[ev.i + 1]) = Count(ev.before, levels[ev.i + 1])

\* the oldest artifact of 30m was in 3h as well; it is gone from 30m and 3h
\* holds what it held
C30_Witness ==
    /\ SelectedNameInNext
    /\ ev.i = 1
    /\ ev.outcome = "source-removed"
    /\ ev.old \in ev.before["30m"].entries
    /\ ev.old \notin dirs["30m"].entries
    /\ ev.old \in dirs["3h"].entries

-----------------------------------------------------------------------------
(* The two versions of promoteBackup compared                              *)

TierCount(d, level) == Len(VhdxNames(d[level].entries))

AbsDiff(a, b) == IF a >= b THEN a - b ELSE b - a

-----------------------------------------------------------------------------
(* Names and the order of creation                                         *)

\* C32: of any two artifacts named by successive cycles with dry_run false,
\* the one created earlier sorts strictly before the one created later under
\* the comparison of sort.Strings, whatever the sequence number, the numbers
\* wider than the padding included.
C32_NamesSortByCreation ==
    call.op = "names" =>
        \A i, j \in 1..Len(call.names) :
            i < j => StrLess(call.names[i], call.names[j])

-----------------------------------------------------------------------------
(* A ledger that cannot be written                                         *)

\* C33: when saveLastExecutionRecord fails after the backup step of
\* runOneShotMode ran or was simulated under dry_run, runOneShotMode returns
\* an error to its caller and not nil.
C33_WriteFailureReturned ==
    [][\A p \in Procs :
          (/\ pc[p] = "save"
           /\ pc'[p] = "idle"
           /\ \E fault \in SaveFaults :
                 LET s == saveLastExecutionRecord(ledgerFile, rec[p], fault)
                 IN  s.err # "nil" /\ ledgerFile' = s.file)
             => ret'[p] # "nil"]_vars

-----------------------------------------------------------------------------
(* The copy methods                                                        *)

\* the entries of q that satisfy isCommandAvailable
AvailableOf(q, found) ==
    LET Test(m) == isCommandAvailable(m, found)
    IN  SelectSeq(q, Test)

\* C34: tryCopy goes through the configured priority followed by the default
\* methods the configuration lacks (robocopy, xcopy, copy-item, native, in
\* that order), attempts only available methods, in that order and none
\* after the first that succeeds, and returns an error exactly when no method
\* is available or every available method failed.
C34_TryCopyOrder ==
    call.op = "tryCopy" =>
        LET given == Len(call.priority)
            order == call.copyMethods
            added == SubSeq(order, given + 1, Len(order))
            avail == AvailableOf(order, call.found)
            Succeeds(m) == call.dryRun \/ m \in call.works
            good == {k \in 1..Len(avail) : Succeeds(avail[k])}
            first == CHOOSE k \in good : \A j \in good : k <= j
        IN  /\ SubSeq(order, 1, given) = call.priority
            /\ Range(added) = Range(defaultMethods) \ Range(call.priority)
            /\ \A a, b \in 1..Len(added) :
                  a < b => \E x, y \in 1..Len(defaultMethods) :
                              /\ x < y
                              /\ defaultMethods[x] = added[a]
                              /\ defaultMethods[y] = added[b]
            /\ call.ret.attempted =
                  IF good = {} THEN avail ELSE SubSeq(avail, 1, first)
            /\ (call.ret.err # "nil") <=> (good = {})

\* a call that skipped an unavailable method of the priority, saw the next
\* one fail and stopped at a later one that succeeded, before the last method
C34_Witness ==
    /\ call.op = "tryCopy"
    /\ ~call.dryRun
    /\ Len(call.priority) = 2
    /\ ~isCommandAvailable(call.priority[1], call.found)
    /\ Len(call.ret.attempted) = 2
    /\ call.ret.attempted[1] = call.priority[2]
    /\ call.ret.err = "nil"
    /\ call.ret.attempted[2] # "native"

-----------------------------------------------------------------------------
(* The extension filter                                                    *)

\* C35: for every extensions list, the cleanup step, the xcopy path and the
\* native path select the same files: a file is kept exactly when its
\* lower-cased base name ends with one of the lower-cased extensions (every
\* file when the list is empty), extensions with more than one dot included.
C35_SameFilesSelected ==
    call.op = "filter" =>
        LET suffixRule ==
                \/ call.extensions = {}
                \/ \E e \in call.extensions :
                      HasSuffix(ToLower(Base(call.path)), ToLower(e))
        IN  /\ call.cleanup = suffixRule
            /\ call.xcopy = suffixRule
            /\ call.native = suffixRule

-----------------------------------------------------------------------------
(* Minutes the daemon loop sleeps through                                  *)

\* the first second of the minute after the one of reading t
NextMinute(t) == AddSeconds(Time(t.day, t.hour, t.min, 0, TRUE), 60)

\* C36: while the daemon runs, no minute matching a schedule rule passes
\* without an evaluation of the loop inside it (which then executes the
\* backup of the minute's level), however long the iteration before it took.
C36_NoMatchingMinuteSkipped ==
    \A p \in SeqProcs :
        (pc[p] = "loop" /\ runs > 0 /\ determineBestBackupLevel(NextMinute(now[p])).ok)
            => \/ Abs(clock) < Abs(NextMinute(now[p])) + 60
               \/ <<determineBestBackupLevel(NextMinute(now[p])).level,
                    MinuteOf(NextMinute(now[p]))>> \in DOMAIN execs

-----------------------------------------------------------------------------
(* keep_versions of zero                                                   *)

\* C37: for keep_versions >= 0 in every level (0 for a missing key) and any
\* tier directories, the empty ones included, promoteBackup takes the oldest
\* artifact only of a tier that holds one and rotation deletes only names of
\* its listing: no index is out of range.
C37_NoOutOfRange ==
    ~faulted =>
        /\ ev.op = "promote" =>
              /\ ev.outcome # "panic"
              /\ ev.old # <<>> => ev.old \in ev.before[levels[ev.i]].entries
        /\ ev.op = "rotate" =>
              LET names == VhdxNames(ev.before[ev.level].entries)
                  keep == cfg.KeepVersions[ev.level]
              IN  Len(names) > keep =>
                      /\ Len(names) - keep \in 0..Len(names)
                      /\ rotateSurplus(names, keep) \subseteq Range(names)

-----------------------------------------------------------------------------
(* Where artifacts are deleted                                             *)

\* C38: from empty tiers, with every keepCount at least 1 and no failing
\* operation, rotation deletes artifacts from the tier 1d only, and every
\* deleted artifact has been in 30m, 3h, 6h, 12h and 1d, in that order.
C38_DeletedOnlyFromLastTier ==
    call.op = "chain" =>
        \A x \in call.hist.deleted :
            /\ x[2] = "1d"
            /\ call.hist.path[x[1]] = levels

\* rotation has deleted an artifact under the version of main.go
C38_Witness ==
    /\ call.op = "chain"
    /\ impl = "main"
    /\ call.hist.deleted # {}
    /\ \A l \in Levels : call.hist.dirs[l].entries # {}

-----------------------------------------------------------------------------
(* The result of the cleanup                                               *)

\* C39: cleanupUnwantedFiles returns true whenever its walk of the
\* destination meets no error, a destination without any entry included, so
\* a two-stage robocopy run whose first stage succeeded is then reported as
\* successful.
C39_CleanupWithoutErrorSucceeds ==
    call.op = "cleanup" =>
        ((\A k \in 1..Len(call.entries) :
              ~call.entries[k].walkErr /\ ~call.entries[k].removeErr)
            => /\ call.cleanup
               /\ call.stage1 => call.ret)

====
